---- MODULE Spec2Model ----
(***************************************************************************)
(* Task orchestration of Project Chimera: the BaseAgent runtime, the       *)
(* AgentOrchestrator registry and the SupervisorAgent's phased pipeline    *)
(* (research -> content -> safety -> distribution), together with the      *)
(* BaseComponent runtime.                                                  *)
(*                                                                         *)
(* Python dicts are modelled as TLA+ records (functions from key strings), *)
(* d.get(k, default) as Get(d, k, default), lists as sequences.  Wall      *)
(* clock values (timestamps, execution times, the time suffix of task ids) *)
(* are kept as fixed placeholders: no decision of the modelled code reads  *)
(* them.                                                                   *)
(***************************************************************************)
EXTENDS Integers, Sequences, FiniteSets, TLC

\* Bound on the number of successful register_subagent calls in one behaviour
\* (the swarm lists only grow).
MaxRegs == 3

---------------------------------------------------------------------------
(* Dict helpers *)

\* The empty dict {}.
EmptyDict == [k \in {} |-> TRUE]

\* d.get(k, default)
Get(d, k, default) == IF k \in DOMAIN d THEN d[k] ELSE default

\* Value of a local that has not been assigned yet.
Unset == [unset |-> TRUE]

---------------------------------------------------------------------------
(* Workers: the agent objects the program constructs *)

Supervisor == "supervisor"

\* Agent objects created by initialize_agents (one per swarm, two for safety).
Workers == {"trend", "script", "hitl", "moderation", "publisher"}

\* A second TrendFetcherAgent() object: it carries the class's default id.
SecondTrend == "trend2"

\* agent.agent_id of each object.
AgentIdOf(w) ==
    CASE w = "trend"      -> "trend_fetcher_001"
      [] w = SecondTrend  -> "trend_fetcher_001"
      [] w = "script"     -> "script_writer_001"
      [] w = "hitl"       -> "hitl_001"
      [] w = "moderation" -> "moderation_001"
      [] w = "publisher"  -> "publisher_001"
      [] w = Supervisor   -> "supervisor_001"

\* The task types each agent class's execute() recognises.
HandlerSet(w) ==
    CASE w = "trend"      -> {"analyze_trends"}
      [] w = SecondTrend  -> {"analyze_trends"}
      [] w = "script"     -> {"generate_content"}
      [] w = "hitl"       -> {"validate_content"}
      [] w = "moderation" -> {"validate_content"}
      [] w = "publisher"  -> {"publish_content"}
      [] w = Supervisor   -> {"coordinate_content_creation", "analyze_trends",
                              "publish_content", "register_subagent"}

\* AgentStatus
AgentStatus == {"idle", "working", "paused", "error", "completed"}

\* Keys of SupervisorAgent.swarms.
SwarmNames == {"research", "content", "safety", "distribution"}

---------------------------------------------------------------------------
(* Handlers: execute() of the concrete agents *)

\* A text (title, script) is kept as its length and the flagged words it holds.
EmptyText == [len |-> 0, words |-> {}]

\* HumanInLoopAgent.approval_thresholds["engagement_spike"]
EngagementSpike == 10000
\* ContentModerationAgent.quality_thresholds
MinTitleLength == 5
MaxTitleLength == 100
MinScriptLength == 100
MaxScriptLength == 5000

\* Words of the unsafe_patterns of HumanInLoopAgent._perform_content_safety_check
HitlUnsafeWords == {"hate", "violence", "explicit", "adult", "politics",
                    "controversial"}
\* ContentModerationAgent.banned_phrases
BannedPhrases == {"clickbait", "you won't believe", "incredible", "shocking"}
\* Words of the unsafe_patterns of ContentModerationAgent._check_content_safety
ModerationUnsafeWords == {"violence", "hatred", "discrimination", "explicit",
                          "dangerous", "unsafe", "illegal"}

\* HumanInLoopAgent._check_approval_requirements (_is_first_post_to_platform
\* and _is_schedule_deviation always answer False).
HitlNeedsApproval(cd) ==
    \/ Get(cd, "flags", <<>>) # <<>>
    \/ Get(cd, "estimated_engagement", 0) > EngagementSpike
    \/ (Get(cd, "title", EmptyText).words \cup Get(cd, "script", EmptyText).words)
            \cap HitlUnsafeWords # {}

\* ContentModerationAgent.moderate_content: all four checks pass.
MutModerationApprovesAll(cd) == TRUE

\* ContentModerationAgent.moderate_content: all four checks pass.
ModerationApproved(cd) ==
    LET title == Get(cd, "title", EmptyText)
        script == Get(cd, "script", EmptyText)
    IN  /\ title.len >= MinTitleLength /\ title.len <= MaxTitleLength
        /\ title.words \cap BannedPhrases = {}
        /\ script.len >= MinScriptLength /\ script.len <= MaxScriptLength
        /\ (title.words \cup script.words) \cap ModerationUnsafeWords = {}
        /\ {"trend_keyword", "research_source"} \subseteq DOMAIN cd

\* The dict a recognised handler returns for task t.  Of the mock data only
\* the fields some modelled code reads are kept, with one field telling the
\* handlers' payloads apart.
HandlerResult(w, t) ==
    CASE w \in {"trend", SecondTrend} ->
            [timeframe |-> Get(t, "timeframe", "7d"), analysis_completed |-> TRUE]
      [] w = "script" ->
            [title |-> [len |-> 32, words |-> {}],
             script |-> [len |-> 80, words |-> {}],
             trend_keyword |-> "Artificial Intelligence",
             content_type |-> Get(t, "content_type", "educational"),
             script_written |-> TRUE]
      [] w = "hitl" ->
            IF HitlNeedsApproval(Get(t, "content_data", EmptyDict))
            THEN [approved |-> FALSE, needs_human_review |-> TRUE,
                  content_held |-> TRUE]
            ELSE [approved |-> TRUE, needs_human_review |-> FALSE,
                  content_approved |-> TRUE]
      [] w = "moderation" ->
            [approved |-> ModerationApproved(Get(t, "content_data", EmptyDict)),
             moderation_completed |-> TRUE]
      [] w = "publisher" ->
            [total_platforms_attempted |-> Len(Get(t, "platforms", <<"youtube">>)),
             publishing_completed |-> TRUE]

\* Outcomes of agent.execute(task): the value returned, or the exception raised.
\* An unrecognised task_type raises ValueError before anything is awaited.
ExecuteOutcomes(w, t) ==
    IF Get(t, "task_type", "unknown") \notin HandlerSet(w)
    THEN {[kind |-> "raise", error |-> "Unknown task type"]}
    ELSE {[kind |-> "return", result |-> HandlerResult(w, t)]}

---------------------------------------------------------------------------
(* BaseAgent.process_task *)

\* Status the agent is left in for an outcome of execute().
MutStatusAlwaysCompleted(o) == "completed"
MutStatusStaysWorking(o) == "working"
StatusAfter(o) == IF o.kind = "return" THEN "completed" ELSE "error"

\* The envelope process_task returns for an outcome of execute().
MutEnvelopeBoth(w, t, o) ==
    [agent_id |-> AgentIdOf(w), task_id |-> Get(t, "task_id", "None"),
     result |-> IF o.kind = "return" THEN o.result ELSE EmptyDict,
     error |-> IF o.kind = "return" THEN "" ELSE o.error,
     status |-> IF o.kind = "return" THEN "success" ELSE "error",
     timestamp |-> "utcnow"]
Envelope(w, t, o) ==
    IF o.kind = "return"
    THEN [agent_id |-> AgentIdOf(w), task_id |-> Get(t, "task_id", "None"),
          result |-> o.result, status |-> "success", timestamp |-> "utcnow"]
    ELSE [agent_id |-> AgentIdOf(w), task_id |-> Get(t, "task_id", "None"),
          error |-> o.error, status |-> "error", timestamp |-> "utcnow"]

---------------------------------------------------------------------------
(* AgentOrchestrator: the agents dict, in insertion order *)

\* self.agents[agent.agent_id] = agent : replaces in place, else appends.
MutRegisterAppends(ags, w) == Append(ags, w)
RegisterAgent(ags, w) ==
    IF \E i \in 1..Len(ags) : AgentIdOf(ags[i]) = AgentIdOf(w)
    THEN [i \in 1..Len(ags) |->
            IF AgentIdOf(ags[i]) = AgentIdOf(w) THEN w ELSE ags[i]]
    ELSE Append(ags, w)

\* del self.agents[agent_id] if present.
DeregisterAgent(ags, id) == SelectSeq(ags, LAMBDA x : AgentIdOf(x) # id)

\* Membership "x in lst" for a list.
InList(x, lst) == \E i \in 1..Len(lst) : lst[i] = x

---------------------------------------------------------------------------
(* State *)

VARIABLES
    agents,     \* orchestrator.agents: the registered agent objects, in dict order
    swarms,     \* supervisor.swarms: swarm name -> list of agent ids
    status,     \* agent.status of every agent object and of the supervisor
    nregs,      \* number of successful register_subagent calls so far
    exc,        \* exception raised by the latest direct call, "" if it returned
    pc,         \* where the supervisor's process_task call stands
    task,       \* the task the supervisor is processing
    phase,      \* pipeline phase being executed
    bidx,       \* broadcast_task: position of the loop in agents
    btask,      \* broadcast_task: the task being broadcast
    bresults,   \* broadcast_task: results collected so far
    research_results, content_results, validation_results, distribution_results,
                \* locals of the running entry point
    ret,        \* envelope returned by the supervisor's latest process_task call
    calls,      \* history: process_task calls made on workers during the call
    outs,       \* history: what execute() did in each of these calls
    acur,       \* agent whose directly called process_task awaits execute(), or "none"
    atask,      \* the task of that direct call
    aret,       \* envelope returned by the latest direct process_task call on an agent
    cstatus,    \* component.status
    is_running, \* component.is_running
    cqueue,     \* component.task_queue.qsize()
    metrics,    \* component.metrics: task type -> counters
    stopping,   \* a stop() call is waiting for the task queue to drain
    cbusy,      \* a process_task call of the component awaits execute()
    ctask,      \* the task of that call
    cret,       \* envelope returned by the component's latest process_task call
    cexc,       \* exception the component's latest process_task call raised, "" if none
    ncalls,     \* number of process_task calls the component has accepted
    health,     \* component.health
    snapshot,   \* what the latest get_all_statuses() of the component registry
                \* returned, Unset once the component was operated on since
    filter_func, \* broadcast_task: the filter of the broadcast in progress
    components,       \* ComponentRegistry.components, in insertion order
    component_types,  \* ComponentRegistry.component_types: type name -> ids
    overall_health,   \* overall_health of the latest perform_health_check
    ncregs,           \* number of register_component calls made
    pending_approvals, \* HumanInLoopAgent.pending_approvals: id -> request
    hitl_ret,         \* what the latest validate_content / approve_content returned
    nvalidate,        \* number of validate_content calls made
    is_monitoring,    \* TrendMonitoringComponent.is_monitoring
    monitoring_tasks, \* TrendMonitoringComponent.monitoring_tasks (its keys)
    mon_ret,          \* what the latest start_monitoring / stop_monitoring returned
    mon_clock,        \* datetime.utcnow() to the second
    mon_loops,        \* position of each live _monitoring_loop task, by monitoring id
    pub_content,      \* publish_content: the content_data of the call
    platforms,        \* publish_content: the list of platforms of the call
    publish_results,  \* publish_content: the dict platform -> result
    pub_idx,          \* publish_content: position of the loop over platforms
    pub_ret,          \* what the latest publish_content returned
    inflight,         \* overlapping process_task calls on one agent
    last_outcome      \* per agent, the outcome of its process_task call that
                      \* returned last, Unset after a control action on it

regVars == <<agents, swarms, nregs, exc>>
runVars == <<pc, task, phase, bidx, btask, bresults, research_results,
             content_results, validation_results, distribution_results, ret,
             calls, outs>>
directVars == <<acur, atask, aret>>
compVars == <<cstatus, is_running, cqueue, metrics, stopping, cbusy, ctask, cret,
              cexc, ncalls, health, snapshot>>
orchVars == <<filter_func>>
cregVars == <<components, component_types, overall_health, ncregs>>
hitlVars == <<pending_approvals, hitl_ret, nvalidate>>
monVars == <<is_monitoring, monitoring_tasks, mon_ret, mon_clock, mon_loops>>
pubVars == <<pub_content, platforms, publish_results, pub_idx, pub_ret>>
overlapVars == <<inflight, last_outcome>>
extVars == <<cregVars, hitlVars, monVars, pubVars, overlapVars>>
coreVars == <<regVars, status, runVars, directVars, compVars, orchVars>>
vars == <<agents, swarms, status, nregs, exc, pc, task, phase, bidx, btask,
          bresults, research_results, content_results, validation_results,
          distribution_results, ret, calls, outs, acur, atask, aret, cstatus,
          is_running, cqueue, metrics, stopping, cbusy, ctask, cret, cexc, ncalls,
          health, snapshot, filter_func, components, component_types,
          overall_health, ncregs, pending_approvals, hitl_ret, nvalidate,
          is_monitoring, monitoring_tasks, mon_ret, mon_clock, mon_loops, pub_content, platforms,
          publish_results, pub_idx, pub_ret, inflight, last_outcome>>

\* Tasks handed to supervisor.process_task.
TaskInputs ==
    {[task_id |-> "t1", task_type |-> tt, topic |-> "AI"] :
        tt \in {"coordinate_content_creation", "analyze_trends",
                "publish_content", "summarize"}}

\* (agent, swarm_type) pairs handed to register_subagent: the pairs of
\* initialize_agents, an agent put into a swarm whose task type it does not
\* handle, an unknown swarm name and a missing agent.
RegInputs ==
    {<<"trend", "research">>, <<"script", "content">>, <<"hitl", "safety">>,
     <<"moderation", "safety">>, <<"publisher", "distribution">>,
     <<"trend", "safety">>, <<"trend", "archive">>, <<"None", "research">>}

\* BaseComponent.__init__: the component is READY and not running.
ComponentInit ==
    /\ cstatus = "ready"
    /\ is_running = FALSE
    /\ cqueue = 0
    /\ metrics = EmptyDict
    /\ stopping = FALSE
    /\ cbusy = FALSE
    /\ ctask = Unset
    /\ cret = Unset
    /\ cexc = ""
    /\ ncalls = 0
    /\ health = "unknown"
    /\ snapshot = Unset

\* broadcast_task called without a filter (filter_func=None).
NoFilter == [none |-> TRUE]

\* No broadcast has been started on the orchestrator directly.
OrchInit == filter_func = NoFilter

\* No direct call on an agent has been made.
DirectInit == acur = "none" /\ atask = Unset /\ aret = Unset

\* ComponentRegistry.__init__: no component, no type list.
CRegInit ==
    /\ components = <<>>
    /\ component_types = EmptyDict
    /\ overall_health = "none"
    /\ ncregs = 0

\* HumanInLoopAgent.__init__: nothing is pending.
HitlInit ==
    /\ pending_approvals = EmptyDict
    /\ hitl_ret = Unset
    /\ nvalidate = 0

\* TrendMonitoringComponent.__init__: not monitoring, no monitoring task.
MonInit ==
    /\ is_monitoring = FALSE
    /\ monitoring_tasks = {}
    /\ mon_ret = Unset
    /\ mon_clock = 0
    /\ mon_loops = EmptyDict

\* PublishingService: no publish_content call was made yet.
PubInit ==
    /\ pub_content = Unset
    /\ platforms = <<>>
    /\ publish_results = EmptyDict
    /\ pub_idx = 0
    /\ pub_ret = Unset

\* Bound on the process_task calls that overlap on one agent.
MaxOverlap == 2
CallSlots == 1..MaxOverlap

\* No process_task call is in progress on the agent.
OverlapInit ==
    /\ inflight = [c \in CallSlots |-> Unset]
    /\ last_outcome = [w \in Workers |-> Unset]

ExtInit == CRegInit /\ HitlInit /\ MonInit /\ PubInit /\ OverlapInit

\* SupervisorAgent.__init__ / BaseAgent.__init__
Init ==
    /\ ComponentInit
    /\ DirectInit
    /\ OrchInit
    /\ agents = <<>>
    /\ swarms = [s \in SwarmNames |-> <<>>]
    /\ status = [w \in Workers \cup {Supervisor} |-> "idle"]
    /\ nregs = 0
    /\ exc = ""
    /\ pc = "idle"
    /\ task = Unset
    /\ phase = "none"
    /\ bidx = 0
    /\ btask = Unset
    /\ bresults = <<>>
    /\ research_results = Unset
    /\ content_results = Unset
    /\ validation_results = Unset
    /\ distribution_results = Unset
    /\ ret = Unset
    /\ calls = <<>>
    /\ outs = <<>>
    /\ ExtInit

\* No process_task call of the supervisor is in progress.
Quiescent == pc \in {"idle", "done"}

---------------------------------------------------------------------------
(* Registration *)

\* The locals of a returned process_task call are gone and its envelope is
\* dropped once the caller goes on to another operation; the history of the
\* call is cleared with them.
ForgetRun ==
    /\ pc' = "idle"
    /\ task' = Unset
    /\ phase' = "none"
    /\ bidx' = 0
    /\ btask' = Unset
    /\ bresults' = <<>>
    /\ research_results' = Unset
    /\ content_results' = Unset
    /\ validation_results' = Unset
    /\ distribution_results' = Unset
    /\ ret' = Unset
    /\ calls' = <<>>
    /\ outs' = <<>>

\* SupervisorAgent.register_subagent, called directly as initialize_agents does.
RegisterSubagent(w, s) ==
    /\ Quiescent
    /\ IF w \in Workers /\ s \in DOMAIN swarms
       THEN /\ nregs < MaxRegs
            /\ nregs' = nregs + 1
            /\ agents' = RegisterAgent(agents, w)
            /\ swarms' = [swarms EXCEPT ![s] = Append(@, AgentIdOf(w))]
            /\ exc' = ""
       ELSE /\ exc' = "ValueError: Invalid agent registration request"
            /\ UNCHANGED <<agents, swarms, nregs>>
    /\ ForgetRun
    /\ UNCHANGED <<status, directVars, compVars>>
    /\ UNCHANGED orchVars
    /\ UNCHANGED extVars

\* AgentOrchestrator.deregister_agent on the supervisor's orchestrator.
Deregister(id) ==
    /\ Quiescent
    /\ agents' = DeregisterAgent(agents, id)
    /\ exc' = ""
    /\ ForgetRun
    /\ UNCHANGED <<swarms, status, nregs, directVars, compVars>>
    /\ UNCHANGED orchVars
    /\ UNCHANGED extVars

---------------------------------------------------------------------------
(* SupervisorAgent: the phases *)

\* The marker a phase returns when its swarm list is empty.
MutNoAgentsMarker(p) == [error |-> "No agents available"]
MutMarkerPassing(p) ==
    [error |-> "No safety agents available", content_passed_validation |-> TRUE]
NoAgentsMarker(p) ==
    CASE p = "research"     -> [error |-> "No research agents available"]
      [] p = "content"      -> [error |-> "No content agents available"]
      [] p = "safety"       -> [error |-> "No safety agents available",
                                content_passed_validation |-> FALSE]
      [] p = "distribution" -> [error |-> "No distribution agents available"]

\* What _execute_distribution_phase returns when validation did not pass.
SkipMarker == [skipped |-> TRUE, reason |-> "Failed safety validation"]

\* all(r.get("result", {}).get("approved", False) for r in results)
MutContentPassedAny(results) ==
    \E i \in 1..Len(results) :
        Get(Get(results[i], "result", EmptyDict), "approved", FALSE)
ContentPassed(results) ==
    \A i \in 1..Len(results) :
        Get(Get(results[i], "result", EmptyDict), "approved", FALSE)

\* The task a phase prepares for its swarm.
MutPhaseTaskEmbedsResultList(p, input) ==
    CASE p = "research" ->
            [task_id |-> "research", task_type |-> "analyze_trends",
             topic |-> Get(input, "topic", ""),
             keywords |-> Get(input, "keywords", <<>>),
             timeframe |-> Get(input, "timeframe", "7d")]
      [] p = "content" ->
            [task_id |-> "content", task_type |-> "generate_content",
             research_data |-> Get(input, "results", <<>>),
             content_type |-> "script", platform |-> "youtube"]
      [] p = "safety" ->
            [task_id |-> "safety", task_type |-> "validate_content",
             content_data |-> Get(input, "results", <<>>), policy_check |-> TRUE,
             human_approval_required |-> TRUE]
      [] p = "distribution" ->
            [task_id |-> "distribution", task_type |-> "publish_content",
             content_data |-> Get(input, "content_data", EmptyDict),
             platforms |-> <<"youtube", "twitter", "instagram">>,
             schedule_immediate |-> TRUE]

\* The task a phase broadcasts, built from the phase's argument.
PhaseTask(p, input) ==
    CASE p = "research" ->
            [task_id |-> "research", task_type |-> "analyze_trends",
             topic |-> Get(input, "topic", ""),
             keywords |-> Get(input, "keywords", <<>>),
             timeframe |-> Get(input, "timeframe", "7d")]
      [] p = "content" ->
            [task_id |-> "content", task_type |-> "generate_content",
             research_data |-> input, content_type |-> "script",
             platform |-> "youtube"]
      [] p = "safety" ->
            [task_id |-> "safety", task_type |-> "validate_content",
             content_data |-> input, policy_check |-> TRUE,
             human_approval_required |-> TRUE]
      [] p = "distribution" ->
            [task_id |-> "distribution", task_type |-> "publish_content",
             content_data |-> Get(input, "content_data", EmptyDict),
             platforms |-> <<"youtube", "twitter", "instagram">>,
             schedule_immediate |-> TRUE]

\* The dict a phase returns after its broadcast.
MutPhaseResultDropsLast(p, results) ==
    [results |-> SubSeq(results, 1, Len(results) - 1), phase |-> p]
PhaseResult(p, results) ==
    CASE p = "research"     -> [results |-> results, phase |-> "research"]
      [] p = "content"      -> [results |-> results, phase |-> "content"]
      [] p = "safety"       -> [results |-> results, phase |-> "safety",
                                content_passed_validation |-> ContentPassed(results)]
      [] p = "distribution" -> [results |-> results, phase |-> "distribution",
                                published |-> TRUE]

\* The argument the entry point passes to the phase it is about to run.
PhaseInput ==
    CASE phase = "research"     -> task
      [] phase = "content"      -> research_results
      [] phase = "safety"       ->
            IF task.task_type = "publish_content"
            THEN [content_data |-> task]
            ELSE content_results
      [] phase = "distribution" -> validation_results

\* _execute_distribution_phase: the gate on the safety verdict.
MutGateOpen(input) == TRUE
DistributionGateOpen(input) == Get(input, "content_passed_validation", FALSE)

\* execute() returns `result` to process_task, which wraps it and returns.
Finish(result) ==
    /\ ret' = Envelope(Supervisor, task, [kind |-> "return", result |-> result])
    /\ status' = [status EXCEPT
                    ![Supervisor] = StatusAfter([kind |-> "return", result |-> result])]
    /\ pc' = "done"
    /\ phase' = "none"

\* The running phase returned `res`: the entry point stores it and goes on.
Complete(res) ==
    LET tt == task.task_type IN
    /\ research_results' = IF phase = "research" THEN res ELSE research_results
    /\ content_results' = IF phase = "content" THEN res ELSE content_results
    /\ validation_results' = IF phase = "safety" THEN res ELSE validation_results
    /\ distribution_results' =
            IF phase = "distribution" THEN res ELSE distribution_results
    /\ CASE tt = "coordinate_content_creation" /\ phase = "research" ->
                /\ pc' = "phase" /\ phase' = "content"
                /\ UNCHANGED <<ret, status>>
         [] tt = "coordinate_content_creation" /\ phase = "content" ->
                /\ pc' = "phase" /\ phase' = "safety"
                /\ UNCHANGED <<ret, status>>
         [] tt = "coordinate_content_creation" /\ phase = "safety" ->
                /\ pc' = "phase" /\ phase' = "distribution"
                /\ UNCHANGED <<ret, status>>
         [] tt = "coordinate_content_creation" /\ phase = "distribution" ->
                Finish([research_results |-> research_results,
                        content_results |-> content_results,
                        validation_results |-> validation_results,
                        distribution_results |-> res,
                        workflow_completed |-> TRUE])
         [] tt = "analyze_trends" -> Finish(res)
         [] tt = "publish_content" /\ phase = "safety" ->
                IF ~Get(res, "content_passed_validation", FALSE)
                THEN Finish([error |-> "Content did not pass validation",
                             published |-> FALSE])
                ELSE /\ pc' = "phase" /\ phase' = "distribution"
                     /\ UNCHANGED <<ret, status>>
         [] tt = "publish_content" /\ phase = "distribution" -> Finish(res)

\* BaseAgent.process_task on the supervisor, up to the first phase of
\* SupervisorAgent.execute (or to the error envelope for an unknown task type).
BeginTask(t) ==
    /\ Quiescent
    /\ task' = t
    /\ bidx' = 0 /\ btask' = Unset /\ bresults' = <<>>
    /\ research_results' = Unset /\ content_results' = Unset
    /\ validation_results' = Unset /\ distribution_results' = Unset
    /\ calls' = <<>> /\ outs' = <<>>
    /\ exc' = ""
    /\ IF Get(t, "task_type", "unknown") \in HandlerSet(Supervisor)
       THEN /\ status' = [status EXCEPT ![Supervisor] = "working"]
            /\ pc' = "phase"
            /\ phase' = IF t.task_type = "publish_content" THEN "safety"
                        ELSE "research"
            /\ ret' = Unset
       ELSE \E o \in ExecuteOutcomes(Supervisor, t) :
            /\ status' = [status EXCEPT ![Supervisor] = StatusAfter(o)]
            /\ ret' = Envelope(Supervisor, t, o)
            /\ pc' = "done"
            /\ phase' = "none"
    /\ UNCHANGED <<agents, swarms, nregs, directVars, compVars>>
    /\ UNCHANGED orchVars
    /\ UNCHANGED extVars

\* _execute_<phase>_phase up to the broadcast: the distribution gate, the
\* empty-swarm check and the task.
EnterPhase ==
    /\ pc = "phase"
    /\ IF phase = "distribution" /\ ~DistributionGateOpen(PhaseInput)
       THEN /\ Complete(SkipMarker)
            /\ UNCHANGED <<bidx, btask, bresults>>
       ELSE IF swarms[phase] = <<>>
       THEN /\ Complete(NoAgentsMarker(phase))
            /\ UNCHANGED <<bidx, btask, bresults>>
       ELSE /\ btask' = PhaseTask(phase, PhaseInput)
            /\ bidx' = 1
            /\ bresults' = <<>>
            /\ pc' = "broadcast"
            /\ UNCHANGED <<phase, status, ret, research_results, content_results,
                           validation_results, distribution_results>>
    /\ UNCHANGED <<regVars, task, calls, outs, directVars, compVars>>
    /\ UNCHANGED orchVars
    /\ UNCHANGED extVars

\* Positions of the broadcast loop, from bidx on, whose agent passes the
\* phase's filter (agent.agent_id in <swarm list>).
Matching == {i \in bidx..Len(agents) : InList(AgentIdOf(agents[i]), swarms[phase])}

MutMax(S) == CHOOSE x \in S : \A y \in S : x >= y
Min(S) == CHOOSE x \in S : \A y \in S : x <= y

\* broadcast_task: the loop moves to the next agent passing the filter and
\* calls its process_task, or ends and the phase returns.  A task type the
\* agent does not handle raises before execute() awaits anything, so that
\* call is over within the step.
BroadcastNext ==
    /\ pc = "broadcast"
    /\ IF Matching = {}
       THEN /\ Complete(PhaseResult(phase, bresults))
            /\ UNCHANGED <<bidx, btask, bresults, calls, outs>>
       ELSE LET i == Min(Matching)
                w == agents[i]
            IN  /\ calls' = Append(calls, [phase |-> phase, worker |-> w,
                                           task_type |-> btask.task_type])
                /\ IF btask.task_type \in HandlerSet(w)
                   THEN /\ status' = [status EXCEPT ![w] = "working"]
                        /\ bidx' = i
                        /\ pc' = "handler"
                        /\ UNCHANGED <<bresults, outs>>
                   ELSE \E o \in ExecuteOutcomes(w, btask) :
                        /\ status' = [status EXCEPT ![w] = StatusAfter(o)]
                        /\ bresults' = Append(bresults, Envelope(w, btask, o))
                        /\ outs' = Append(outs, o)
                        /\ bidx' = i + 1
                        /\ pc' = "broadcast"
                /\ UNCHANGED <<phase, btask, ret, research_results,
                               content_results, validation_results,
                               distribution_results>>
    /\ UNCHANGED <<regVars, task, directVars, compVars>>
    /\ UNCHANGED orchVars
    /\ UNCHANGED extVars

\* The awaited execute() of the agent at bidx returns or raises; process_task
\* sets the status and hands its envelope to the broadcast loop.
HandlerReturn ==
    /\ pc = "handler"
    /\ LET w == agents[bidx] IN
       \E o \in ExecuteOutcomes(w, btask) :
            /\ status' = [status EXCEPT ![w] = StatusAfter(o)]
            /\ bresults' = Append(bresults, Envelope(w, btask, o))
            /\ outs' = Append(outs, o)
    /\ bidx' = bidx + 1
    /\ pc' = "broadcast"
    /\ UNCHANGED <<regVars, task, phase, btask, ret, calls, research_results,
                   content_results, validation_results, distribution_results,
                   directVars, compVars>>
    /\ UNCHANGED orchVars
    /\ UNCHANGED extVars

Next ==
    \/ \E r \in RegInputs : RegisterSubagent(r[1], r[2])
    \/ \E w \in Workers : Deregister(AgentIdOf(w))
    \/ \E t \in TaskInputs : BeginTask(t)
    \/ EnterPhase
    \/ BroadcastNext
    \/ HandlerReturn

Spec == Init /\ [][Next]_vars

---------------------------------------------------------------------------
(* Direct calls on a registered agent, and the dashboard's control action *)

\* Tasks handed directly to agent.process_task.
DirectTasks ==
    {[task_id |-> "d1", task_type |-> "analyze_trends", topic |-> "AI"],
     [task_id |-> "d2", task_type |-> "render_video"]}

\* Agents that are called directly.
DirectAgents == {"trend"}

\* agent.process_task(t) called directly (as day_two_demo.py does), up to the
\* await of execute(); an unknown task type raises before anything is awaited
\* and the call returns its error envelope within the step.
AgentProcessBegin(w, t) ==
    /\ acur = "none"
    /\ IF Get(t, "task_type", "unknown") \in HandlerSet(w)
       THEN /\ status' = [status EXCEPT ![w] = "working"]
            /\ acur' = w
            /\ atask' = t
            /\ aret' = Unset
       ELSE \E o \in ExecuteOutcomes(w, t) :
            /\ status' = [status EXCEPT ![w] = StatusAfter(o)]
            /\ aret' = Envelope(w, t, o)
            /\ UNCHANGED <<acur, atask>>
    /\ UNCHANGED <<regVars, runVars, compVars>>
    /\ UNCHANGED orchVars
    /\ UNCHANGED extVars

\* The awaited execute() of the direct call returns.
AgentProcessReturn ==
    /\ acur # "none"
    /\ \E o \in ExecuteOutcomes(acur, atask) :
            /\ status' = [status EXCEPT ![acur] = StatusAfter(o)]
            /\ aret' = Envelope(acur, atask, o)
    /\ acur' = "none"
    /\ atask' = Unset
    /\ UNCHANGED <<regVars, runVars, compVars>>
    /\ UNCHANGED orchVars
    /\ UNCHANGED extVars

\* The agent object registered under agent_id, or "none".
MutAgentByIdDefault(id) == IF agents = <<>> THEN "none" ELSE agents[1]
AgentById(id) ==
    IF \E i \in 1..Len(agents) : AgentIdOf(agents[i]) = id
    THEN agents[CHOOSE i \in 1..Len(agents) : AgentIdOf(agents[i]) = id]
    ELSE "none"

\* Inputs of the dashboard's control endpoint.
ControlIds == {"trend_fetcher_001", "ghost_001"}
ControlActions == {"start", "stop", "pause", "restart", "reboot"}

\* dashboard.control_agent
ControlAgent(id, action) ==
    /\ IF action \notin {"start", "stop", "pause", "restart"}
       THEN /\ exc' = "HTTP 400"
            /\ UNCHANGED status
       ELSE IF AgentById(id) = "none"
       THEN /\ exc' = "HTTP 404"
            /\ UNCHANGED status
       ELSE /\ exc' = ""
            /\ status' = [status EXCEPT ![AgentById(id)] =
                            IF action = "pause" THEN "paused" ELSE "idle"]
    /\ UNCHANGED <<agents, swarms, nregs, runVars, directVars, compVars>>
    /\ UNCHANGED orchVars
    /\ UNCHANGED extVars

---------------------------------------------------------------------------
(* BaseComponent, with ResearchComponent as the concrete component *)

\* Bound on the process_task calls the component accepts in one behaviour.
MaxCompCalls == 3
\* Bound on the tasks put on the component's queue.
MaxQueue == 1

ComponentId == "research_001"

\* Task types ResearchComponent.execute recognises.
ComponentHandlerSet ==
    {"analyze_trends", "analyze_niches", "generate_research_report",
     "get_analysis_history", "get_research_stats"}

\* Tasks handed to the component.
ComponentTasks ==
    {[task_id |-> "c1", task_type |-> "analyze_trends", topic |-> "AI"],
     [task_id |-> "c2", task_type |-> "analyze_trends"],
     [task_id |-> "c3", task_type |-> "render_video"]}

\* ResearchComponent.execute: unknown task types and invalid input raise
\* ValueError before the research service is awaited; the service's answer
\* is kept as the name of the handler that produced it.
ComponentOutcome(t) ==
    LET tt == Get(t, "task_type", "unknown")
        noKeywords == Get(t, "keywords", <<>>) = <<>>
        noTopic == Get(t, "topic", "") = ""
    IN  IF tt \notin ComponentHandlerSet
        THEN [kind |-> "raise", error |-> "Unknown research task type"]
        ELSE IF tt \in {"analyze_trends", "analyze_niches"} /\ noKeywords /\ noTopic
        THEN [kind |-> "raise", error |-> "Either keywords or topic must be provided"]
        ELSE IF tt = "generate_research_report" /\ noKeywords
        THEN [kind |-> "raise", error |-> "Keywords must be provided"]
        ELSE [kind |-> "return", result |-> [handled |-> tt]]

\* BaseComponent._update_metrics (the counters; execution times are wall clock).
UpdateMetrics(m, t, success) ==
    LET tt == Get(t, "task_type", "unknown")
        old == IF tt \in DOMAIN m THEN m[tt]
               ELSE [total_executed |-> 0, total_successful |-> 0, total_failed |-> 0]
        new == [total_executed |-> old.total_executed + 1,
                total_successful |-> old.total_successful + (IF success THEN 1 ELSE 0),
                total_failed |-> old.total_failed + (IF success THEN 0 ELSE 1)]
    IN  [k \in DOMAIN m \cup {tt} |-> IF k = tt THEN new ELSE m[k]]

\* The envelope BaseComponent.process_task returns.
ComponentEnvelope(t, o) ==
    IF o.kind = "return"
    THEN [component_id |-> ComponentId, task_id |-> Get(t, "task_id", "None"),
          result |-> o.result, status |-> "success",
          execution_time_seconds |-> 0, timestamp |-> "utcnow"]
    ELSE [component_id |-> ComponentId, task_id |-> Get(t, "task_id", "None"),
          error |-> o.error, status |-> "error",
          execution_time_seconds |-> 0, timestamp |-> "utcnow"]

\* BaseComponent.process_task accepts a task only in status READY.
ComponentAccepts(st) == st = "ready"

\* BaseComponent.process_task up to the await of execute(): the readiness
\* check raises RuntimeError to the caller; an exception of execute() raised
\* before anything is awaited ends the call within the step.
ComponentProcessBegin(t) ==
    /\ IF ~ComponentAccepts(cstatus)
       THEN /\ cexc' = "RuntimeError: component is not ready"
            /\ UNCHANGED <<cstatus, metrics, cbusy, ctask, cret, ncalls>>
       ELSE /\ ncalls < MaxCompCalls
            /\ ncalls' = ncalls + 1
            /\ cexc' = ""
            /\ IF ComponentOutcome(t).kind = "raise"
               THEN /\ cstatus' = "error"
                    /\ metrics' = UpdateMetrics(metrics, t, FALSE)
                    /\ cret' = ComponentEnvelope(t, ComponentOutcome(t))
                    /\ UNCHANGED <<cbusy, ctask>>
               ELSE /\ cstatus' = "busy"
                    /\ cbusy' = TRUE
                    /\ ctask' = t
                    /\ UNCHANGED <<metrics, cret>>
    /\ UNCHANGED <<is_running, cqueue, stopping>>
    /\ UNCHANGED <<regVars, status, runVars, directVars>>
    /\ UNCHANGED health
    /\ snapshot' = Unset
    /\ UNCHANGED orchVars
    /\ UNCHANGED extVars

\* The awaited execute() returns: metrics, status READY, success envelope.
ComponentProcessReturn ==
    /\ cbusy
    /\ metrics' = UpdateMetrics(metrics, ctask, TRUE)
    /\ cstatus' = "ready"
    /\ cret' = ComponentEnvelope(ctask, ComponentOutcome(ctask))
    /\ cbusy' = FALSE
    /\ ctask' = Unset
    /\ UNCHANGED <<is_running, cqueue, stopping, cexc, ncalls>>
    /\ UNCHANGED <<regVars, status, runVars, directVars>>
    /\ UNCHANGED health
    /\ snapshot' = Unset
    /\ UNCHANGED orchVars
    /\ UNCHANGED extVars

\* BaseComponent.add_task
ComponentAddTask ==
    /\ cqueue < MaxQueue
    /\ cqueue' = cqueue + 1
    /\ UNCHANGED <<cstatus, is_running, metrics, stopping, cbusy, ctask, cret,
                   cexc, ncalls>>
    /\ UNCHANGED <<regVars, status, runVars, directVars>>
    /\ UNCHANGED health
    /\ snapshot' = Unset
    /\ UNCHANGED orchVars
    /\ UNCHANGED extVars

\* BaseComponent.start
ComponentStart ==
    /\ IF is_running
       THEN UNCHANGED <<is_running, cstatus>>
       ELSE /\ is_running' = TRUE
            /\ cstatus' = "ready"
    /\ UNCHANGED <<cqueue, metrics, stopping, cbusy, ctask, cret, cexc, ncalls>>
    /\ UNCHANGED <<regVars, status, runVars, directVars>>
    /\ UNCHANGED health
    /\ snapshot' = Unset
    /\ UNCHANGED orchVars
    /\ UNCHANGED extVars

\* BaseComponent.stop: a call, or the next turn of its wait loop.  It goes
\* on only once the task queue is empty.
ComponentStop ==
    /\ is_running
    /\ IF cqueue = 0
       THEN /\ is_running' = FALSE
            /\ cstatus' = "shutdown"
            /\ stopping' = FALSE
       ELSE /\ stopping' = TRUE
            /\ UNCHANGED <<is_running, cstatus>>
    /\ UNCHANGED <<cqueue, metrics, cbusy, ctask, cret, cexc, ncalls>>
    /\ UNCHANGED <<regVars, status, runVars, directVars>>
    /\ UNCHANGED health
    /\ snapshot' = Unset
    /\ UNCHANGED orchVars
    /\ UNCHANGED extVars

\* BaseComponent.get_status (created_at and last_updated are wall clock).
GetStatus ==
    [component_id |-> ComponentId, status |-> cstatus, health |-> health,
     queue_size |-> cqueue, metrics |-> metrics]

\* ComponentRegistry.get_all_statuses with the component registered.
ComponentGetAllStatuses ==
    /\ snapshot' = [c \in {ComponentId} |-> GetStatus]
    /\ UNCHANGED <<cstatus, is_running, cqueue, metrics, stopping, cbusy, ctask,
                   cret, cexc, ncalls, health>>
    /\ UNCHANGED <<regVars, status, runVars, directVars, orchVars>>
    /\ UNCHANGED extVars

\* The health BaseComponent.health_check settles on: the dependency and
\* configuration checks of ResearchComponent pass, and so does its
\* functionality check.
HealthFor(st) == IF st \in {"ready", "busy"} THEN "healthy" ELSE "unhealthy"

\* ComponentRegistry.perform_health_check with the component registered:
\* ResearchComponent.health_check stores the health it finds.
ComponentHealthCheck ==
    /\ health' = HealthFor(cstatus)
    /\ UNCHANGED <<cstatus, is_running, cqueue, metrics, stopping, cbusy, ctask,
                   cret, cexc, ncalls, snapshot>>
    /\ UNCHANGED <<regVars, status, runVars, directVars, orchVars>>
    /\ UNCHANGED extVars

---------------------------------------------------------------------------
(* The running application: agents registered by initialize_agents, direct *)
(* calls and control actions on them, and a component                      *)

\* The modelled agents in the order initialize_agents registers them.
FactoryAgents == <<"trend", "script", "hitl", "moderation", "publisher">>

\* The swarm lists initialize_agents leaves behind.
FactorySwarms ==
    [research |-> <<AgentIdOf("trend")>>, content |-> <<AgentIdOf("script")>>,
     safety |-> <<AgentIdOf("hitl"), AgentIdOf("moderation")>>,
     distribution |-> <<AgentIdOf("publisher")>>]

InitRuntime ==
    /\ ComponentInit
    /\ DirectInit
    /\ OrchInit
    /\ agents = FactoryAgents
    /\ swarms = FactorySwarms
    /\ status = [w \in Workers \cup {Supervisor} |-> "idle"]
    /\ nregs = Len(FactoryAgents)
    /\ exc = ""
    /\ pc = "idle"
    /\ task = Unset
    /\ phase = "none"
    /\ bidx = 0
    /\ btask = Unset
    /\ bresults = <<>>
    /\ research_results = Unset
    /\ content_results = Unset
    /\ validation_results = Unset
    /\ distribution_results = Unset
    /\ ret = Unset
    /\ calls = <<>>
    /\ outs = <<>>
    /\ ExtInit

NextRuntime ==
    \/ \E w \in DirectAgents, t \in DirectTasks : AgentProcessBegin(w, t)
    \/ AgentProcessReturn
    \/ \E id \in ControlIds, a \in ControlActions : ControlAgent(id, a)
    \/ \E t \in ComponentTasks : ComponentProcessBegin(t)
    \/ ComponentProcessReturn
    \/ ComponentAddTask
    \/ ComponentStart
    \/ ComponentStop
    \/ ComponentGetAllStatuses
    \/ ComponentHealthCheck

SpecRuntime == InitRuntime /\ [][NextRuntime]_vars

---------------------------------------------------------------------------
(* AgentOrchestrator used directly: register_agent, deregister_agent, *)
(* assign_task, broadcast_task, and the dashboard's control action    *)

\* Agent objects handed to the orchestrator.
RegistryObjects == {"trend", SecondTrend, "script"}

\* Filters handed to broadcast_task: none, or a predicate on agents given by
\* the set of objects it accepts.
OrchFilters ==
    {NoFilter} \cup {[accepts |-> S] : S \in SUBSET RegistryObjects}

\* Control actions applied to a registered agent between dispatches.
OrchControlActions == {"pause", "start"}

\* filter_func is None or filter_func(agent)
FilterPasses(f, w) == "none" \in DOMAIN f \/ w \in f.accepts

\* Ids handed to assign_task and deregister_agent.
OrchIds == {"trend_fetcher_001", "script_writer_001", "ghost_001"}

\* No call on the orchestrator or on an agent is in progress.
OrchQuiescent == Quiescent /\ acur = "none"

\* orchestrator.register_agent(agent)
OrchRegister(w) ==
    /\ OrchQuiescent
    /\ agents' = RegisterAgent(agents, w)
    /\ exc' = ""
    /\ ForgetRun
    /\ aret' = Unset
    /\ UNCHANGED <<swarms, status, nregs, acur, atask, compVars, orchVars>>
    /\ UNCHANGED extVars

\* orchestrator.deregister_agent(agent_id)
OrchDeregister(id) ==
    /\ OrchQuiescent
    /\ agents' = DeregisterAgent(agents, id)
    /\ exc' = ""
    /\ ForgetRun
    /\ aret' = Unset
    /\ UNCHANGED <<swarms, status, nregs, acur, atask, compVars, orchVars>>
    /\ UNCHANGED extVars

\* orchestrator.assign_task(agent_id, task): ValueError for an id that is not
\* registered, else the agent's process_task up to the await of execute()
\* (an unknown task type raises before anything is awaited and the call
\* returns its error envelope within the step).
AssignTask(id, t) ==
    /\ OrchQuiescent
    /\ ForgetRun
    /\ IF AgentById(id) = "none"
       THEN /\ exc' = "ValueError: Agent not found in orchestrator"
            /\ aret' = Unset
            /\ UNCHANGED <<status, acur, atask>>
       ELSE LET w == AgentById(id) IN
            /\ exc' = ""
            /\ IF Get(t, "task_type", "unknown") \in HandlerSet(w)
               THEN /\ status' = [status EXCEPT ![w] = "working"]
                    /\ acur' = w
                    /\ atask' = t
                    /\ aret' = Unset
               ELSE \E o \in ExecuteOutcomes(w, t) :
                    /\ status' = [status EXCEPT ![w] = StatusAfter(o)]
                    /\ aret' = Envelope(w, t, o)
                    /\ UNCHANGED <<acur, atask>>
    /\ UNCHANGED <<agents, swarms, nregs, compVars, orchVars>>
    /\ UNCHANGED extVars

\* orchestrator.broadcast_task(task, filter_func) is called.
OrchBroadcastBegin(t, f) ==
    /\ OrchQuiescent
    /\ exc' = ""
    /\ task' = Unset
    /\ phase' = "none"
    /\ btask' = t
    /\ filter_func' = f
    /\ bidx' = 1
    /\ bresults' = <<>>
    /\ calls' = <<>> /\ outs' = <<>>
    /\ ret' = Unset
    /\ pc' = "obroadcast"
    /\ aret' = Unset
    /\ UNCHANGED <<agents, swarms, nregs, status, research_results,
                   content_results, validation_results, distribution_results,
                   acur, atask, compVars>>
    /\ UNCHANGED extVars

\* Positions of the loop, from bidx on, whose agent passes the filter.
OrchMatching == {i \in bidx..Len(agents) : FilterPasses(filter_func, agents[i])}

\* broadcast_task: the loop calls process_task of the next agent passing the
\* filter, or ends and returns the list of results.
OrchBroadcastNext ==
    /\ pc = "obroadcast"
    /\ IF OrchMatching = {}
       THEN /\ ret' = bresults
            /\ pc' = "done"
            /\ UNCHANGED <<bidx, bresults, calls, outs, status>>
       ELSE LET i == Min(OrchMatching)
                w == agents[i]
            IN  /\ calls' = Append(calls, [phase |-> "none", worker |-> w,
                                           task_type |-> Get(btask, "task_type", "unknown")])
                /\ IF Get(btask, "task_type", "unknown") \in HandlerSet(w)
                   THEN /\ status' = [status EXCEPT ![w] = "working"]
                        /\ bidx' = i
                        /\ pc' = "ohandler"
                        /\ UNCHANGED <<bresults, outs>>
                   ELSE \E o \in ExecuteOutcomes(w, btask) :
                        /\ status' = [status EXCEPT ![w] = StatusAfter(o)]
                        /\ bresults' = Append(bresults, Envelope(w, btask, o))
                        /\ outs' = Append(outs, o)
                        /\ bidx' = i + 1
                        /\ pc' = "obroadcast"
                /\ UNCHANGED ret
    /\ UNCHANGED <<regVars, task, phase, btask, research_results, content_results,
                   validation_results, distribution_results, directVars,
                   compVars, orchVars>>
    /\ UNCHANGED extVars

\* The awaited execute() of the agent at bidx returns.
OrchHandlerReturn ==
    /\ pc = "ohandler"
    /\ LET w == agents[bidx] IN
       \E o \in ExecuteOutcomes(w, btask) :
            /\ status' = [status EXCEPT ![w] = StatusAfter(o)]
            /\ bresults' = Append(bresults, Envelope(w, btask, o))
            /\ outs' = Append(outs, o)
    /\ bidx' = bidx + 1
    /\ pc' = "obroadcast"
    /\ UNCHANGED <<regVars, task, phase, btask, ret, calls, research_results,
                   content_results, validation_results, distribution_results,
                   directVars, compVars, orchVars>>
    /\ UNCHANGED extVars

InitRegistry ==
    /\ ComponentInit
    /\ DirectInit
    /\ OrchInit
    /\ agents = <<>>
    /\ swarms = [s \in SwarmNames |-> <<>>]
    /\ status = [w \in RegistryObjects |-> "idle"]
    /\ nregs = 0
    /\ exc = ""
    /\ pc = "idle"
    /\ task = Unset
    /\ phase = "none"
    /\ bidx = 0
    /\ btask = Unset
    /\ bresults = <<>>
    /\ research_results = Unset
    /\ content_results = Unset
    /\ validation_results = Unset
    /\ distribution_results = Unset
    /\ ret = Unset
    /\ calls = <<>>
    /\ outs = <<>>
    /\ ExtInit

NextRegistry ==
    \/ \E w \in RegistryObjects : OrchRegister(w)
    \/ \E id \in OrchIds : OrchDeregister(id)
    \/ \E id \in OrchIds, t \in DirectTasks : AssignTask(id, t)
    \/ AgentProcessReturn
    \/ \E t \in DirectTasks, f \in OrchFilters : OrchBroadcastBegin(t, f)
    \/ OrchBroadcastNext
    \/ OrchHandlerReturn
    \/ \E id \in OrchIds, a \in OrchControlActions : ControlAgent(id, a)

SpecRegistry == InitRegistry /\ [][NextRegistry]_vars

---------------------------------------------------------------------------
(* Properties of the supervisor's pipeline *)

---------------------------------------------------------------------------
(* The supervisor as initialize_agents leaves it, given tasks *)

\* A content item that passes every check of ContentModerationAgent when it
\* is handed to the agent as content_data.
GoodContent ==
    [title |-> [len |-> 32, words |-> {}], script |-> [len |-> 1000, words |-> {}],
     trend_keyword |-> "AI", research_source |-> "twitter"]

\* Tasks handed to the factory's supervisor: those of TaskInputs, a run on
\* another topic, and publish_content calls whose task carries the content
\* item itself or wraps it under content_data.
FactoryTasks ==
    TaskInputs
    \cup {[task_id |-> "t2", task_type |-> "coordinate_content_creation",
           topic |-> "Crypto", keywords |-> <<"bitcoin">>]}
    \cup {[task_id |-> "t3", task_type |-> "publish_content",
           title |-> GoodContent.title, script |-> GoodContent.script,
           trend_keyword |-> "AI", research_source |-> "twitter"],
          [task_id |-> "t4", task_type |-> "publish_content",
           content_data |-> GoodContent],
          [task_id |-> "t5", task_type |-> "publish_content",
           content_data |-> GoodContent, flags |-> <<"spam">>]}

InitFactory == InitRuntime

NextFactory ==
    \/ \E t \in FactoryTasks : BeginTask(t)
    \/ EnterPhase
    \/ BroadcastNext
    \/ HandlerReturn

SpecFactory == InitFactory /\ [][NextFactory]_vars

---------------------------------------------------------------------------
(* HumanInLoopAgent: the pending approvals *)

\* Bound on the validate_content calls made in one behaviour.
MaxValidations == 3

\* content_data handed to validate_content: two items that need review (one
\* flagged by a classifier, one above the engagement threshold) and one that
\* passes the automated checks.
HitlContents ==
    {[video_id |-> "v1", title |-> [len |-> 6, words |-> {}], flags |-> <<"spam">>],
     [video_id |-> "v2", title |-> [len |-> 5, words |-> {}], estimated_engagement |-> EngagementSpike + 1],
     [video_id |-> "v3", title |-> [len |-> 7, words |-> {}]]}

\* Approval ids handed to approve_content; the last one is never issued.
ApprovalIds == 1..(MaxValidations + 1)

\* The entry validate_content stores for content_data cd (request_timestamp
\* is wall clock).
ApprovalRequest(cd) ==
    [content_id |-> Get(cd, "video_id", "unknown"),
     title |-> Get(cd, "title", [len |-> 8, words |-> {}]),
     content_type |-> Get(cd, "content_type", "unknown")]

\* The id validate_content gives a new request: approval_<len(pending) + 1>.
NextApprovalId(pending) == Cardinality(DOMAIN pending) + 1

\* HumanInLoopAgent.validate_content(task) with task.content_data = cd.
HitlValidate(cd) ==
    /\ nvalidate < MaxValidations
    /\ nvalidate' = nvalidate + 1
    /\ IF HitlNeedsApproval(cd)
       THEN LET id == NextApprovalId(pending_approvals) IN
            /\ pending_approvals' =
                    [k \in DOMAIN pending_approvals \cup {id} |->
                        IF k = id THEN ApprovalRequest(cd)
                        ELSE pending_approvals[k]]
            /\ hitl_ret' = [approved |-> FALSE, needs_human_review |-> TRUE,
                            approval_id |-> id, content_held |-> TRUE]
       ELSE /\ hitl_ret' = [approved |-> TRUE, needs_human_review |-> FALSE,
                            content_approved |-> TRUE]
            /\ UNCHANGED pending_approvals
    /\ UNCHANGED <<coreVars, cregVars, monVars, pubVars, overlapVars>>

\* HumanInLoopAgent.approve_content(approval_id, approved)
HitlApprove(id, approved) ==
    /\ IF id \notin DOMAIN pending_approvals
       THEN /\ hitl_ret' = [error |-> "Approval ID not found", approval_id |-> id]
            /\ UNCHANGED pending_approvals
       ELSE /\ hitl_ret' = [approval_id |-> id,
                            content_id |-> pending_approvals[id].content_id,
                            approved |-> approved, notes |-> ""]
            /\ pending_approvals' =
                    [k \in DOMAIN pending_approvals \ {id} |-> pending_approvals[k]]
    /\ UNCHANGED nvalidate
    /\ UNCHANGED <<coreVars, cregVars, monVars, pubVars, overlapVars>>

InitHitl == InitRuntime

NextHitl ==
    \/ \E cd \in HitlContents : HitlValidate(cd)
    \/ \E id \in ApprovalIds, a \in BOOLEAN : HitlApprove(id, a)

SpecHitl == InitHitl /\ [][NextHitl]_vars

---------------------------------------------------------------------------
(* TrendMonitoringComponent: start_monitoring and stop_monitoring *)

\* Bound on the seconds of wall clock that pass in one behaviour.
MaxClock == 2

\* monitoring_id values handed to stop_monitoring; "" stands for a task
\* without monitoring_id (stop all).
MonitorIds == 0..MaxClock

\* The wall clock reaches the next second.
MonTick ==
    /\ mon_clock < MaxClock
    /\ mon_clock' = mon_clock + 1
    /\ UNCHANGED <<is_monitoring, monitoring_tasks, mon_ret, mon_loops>>
    /\ UNCHANGED <<coreVars, cregVars, hitlVars, pubVars, overlapVars>>

\* TrendMonitoringComponent.start_monitoring: the monitoring id is the wall
\* clock to the second, and the background loop is stored under it.
MonStart ==
    /\ IF is_monitoring
       THEN /\ mon_ret' = [status |-> "already_monitoring"]
            /\ UNCHANGED <<is_monitoring, monitoring_tasks, mon_loops>>
       ELSE /\ is_monitoring' = TRUE
            /\ monitoring_tasks' = monitoring_tasks \cup {mon_clock}
            /\ mon_loops' = [k \in DOMAIN mon_loops \cup {mon_clock} |->
                                IF k = mon_clock THEN "check" ELSE mon_loops[k]]
            /\ mon_ret' = [monitoring_started |-> TRUE, monitoring_id |-> mon_clock]
    /\ UNCHANGED mon_clock
    /\ UNCHANGED <<coreVars, cregVars, hitlVars, pubVars, overlapVars>>

\* TrendMonitoringComponent.stop_monitoring with a monitoring_id.
MonStop(id) ==
    /\ IF id \in monitoring_tasks
       THEN /\ monitoring_tasks' = monitoring_tasks \ {id}
            /\ mon_loops' = [k \in DOMAIN mon_loops \ {id} |-> mon_loops[k]]
            /\ mon_ret' = [monitoring_stopped |-> TRUE, monitoring_id |-> id]
       ELSE /\ mon_ret' = [monitoring_stopped |-> FALSE, monitoring_id |-> id,
                           error |-> "Monitoring ID not found"]
            /\ UNCHANGED <<monitoring_tasks, mon_loops>>
    /\ UNCHANGED <<is_monitoring, mon_clock>>
    /\ UNCHANGED <<coreVars, cregVars, hitlVars, pubVars, overlapVars>>

\* TrendMonitoringComponent.stop_monitoring without a monitoring_id.
MonStopAll ==
    /\ mon_ret' = [all_monitoring_stopped |-> TRUE,
                   tasks_stopped |-> Cardinality(monitoring_tasks)]
    /\ monitoring_tasks' = {}
    /\ mon_loops' = [k \in DOMAIN mon_loops \ monitoring_tasks |-> mon_loops[k]]
    /\ is_monitoring' = FALSE
    /\ UNCHANGED mon_clock
    /\ UNCHANGED <<coreVars, cregVars, hitlVars, pubVars, overlapVars>>

\* _monitoring_loop of the task stored under id: the test of the while
\* condition, the awaited analysis, the sleep; the task ends when it finds
\* is_monitoring false.
MonLoopStep(id) ==
    /\ id \in DOMAIN mon_loops
    /\ mon_loops' =
            IF mon_loops[id] = "check"
            THEN IF is_monitoring
                 THEN [mon_loops EXCEPT ![id] = "analyzing"]
                 ELSE [k \in DOMAIN mon_loops \ {id} |-> mon_loops[k]]
            ELSE IF mon_loops[id] = "analyzing"
            THEN [mon_loops EXCEPT ![id] = "sleeping"]
            ELSE [mon_loops EXCEPT ![id] = "check"]
    /\ UNCHANGED <<is_monitoring, monitoring_tasks, mon_ret, mon_clock>>
    /\ UNCHANGED <<coreVars, cregVars, hitlVars, pubVars, overlapVars>>

InitMonitoring == InitRuntime

NextMonitoring ==
    \/ MonTick
    \/ MonStart
    \/ \E id \in MonitorIds : MonStop(id)
    \/ MonStopAll
    \/ \E id \in MonitorIds : MonLoopStep(id)

SpecMonitoring == InitMonitoring /\ [][NextMonitoring]_vars

---------------------------------------------------------------------------
(* BaseComponent.stop under the event loop's scheduling *)

NextStop ==
    \/ \E t \in ComponentTasks : ComponentProcessBegin(t)
    \/ ComponentProcessReturn
    \/ ComponentAddTask
    \/ ComponentStart
    \/ ComponentStop

\* The event loop resumes a stop() that sleeps in its wait loop, and an
\* awaited execute() returns.
FairStop == WF_vars(ComponentStop) /\ WF_vars(ComponentProcessReturn)

SpecStop == InitRuntime /\ [][NextStop]_vars /\ FairStop

---------------------------------------------------------------------------
(* PublishingService.publish_content *)

\* Bound on the length of the list of platforms handed to publish_content.
MaxPlatforms == 2

\* Limits of supported_platforms that _validate_content_for_platform reads.
YoutubeMaxTitleLength == 100
YoutubeMaxDescriptionLength == 5000
TwitterMaxTweetLength == 280

\* Platform names handed to publish_content; the last one is not a key of
\* supported_platforms.
PlatformNames == {"youtube", "twitter", "myspace"}
SupportedPlatforms == {"youtube", "twitter"}

\* Lists of platforms of at most MaxPlatforms entries, repeats included.
PlatformLists ==
    UNION {[1..n -> PlatformNames] : n \in 0..MaxPlatforms}

\* content_data handed to publish_content: a post every platform accepts, a
\* post whose script is too long for a tweet, and a post whose title is None.
PublishContents ==
    {[title_len |-> 32, script_len |-> 200, title_is_str |-> TRUE],
     [title_len |-> 32, script_len |-> 300, title_is_str |-> TRUE],
     [title_len |-> 0, script_len |-> 200, title_is_str |-> FALSE]}

\* _validate_content_for_platform: "valid", "invalid", or "raise" when
\* len() is applied to a title that is not a string (only a platform with a
\* max_title_length measures the title).
ValidateForPlatform(cd, platform) ==
    IF platform = "youtube"
    THEN IF ~cd.title_is_str THEN "raise"
         ELSE IF cd.title_len > YoutubeMaxTitleLength
                 \/ cd.script_len > YoutubeMaxDescriptionLength
         THEN "invalid" ELSE "valid"
    ELSE IF cd.script_len > TwitterMaxTweetLength THEN "invalid" ELSE "valid"

\* The entries publish_content can store for one platform: _publish_to_platform
\* succeeds or fails at random.
PlatformResults(cd, platform) ==
    IF platform \notin SupportedPlatforms
    THEN {[status |-> "error", error |-> "Platform not supported", published |-> FALSE]}
    ELSE IF ValidateForPlatform(cd, platform) = "raise"
    THEN {[status |-> "error", error |-> "TypeError", published |-> FALSE]}
    ELSE IF ValidateForPlatform(cd, platform) = "invalid"
    THEN {[status |-> "failed", error |-> "Validation failed", published |-> FALSE]}
    ELSE {[status |-> "success", published |-> TRUE],
          [status |-> "failed", error |-> "Upload timeout", published |-> FALSE]}

\* The dict publish_content returns for the list pl and the results dict pr.
PublishSummary(pl, pr) ==
    [publish_results |-> pr,
     total_platforms_attempted |-> Len(pl),
     successful_publishes |-> Cardinality({p \in DOMAIN pr : pr[p].published}),
     failed_publishes |->
        Cardinality({p \in DOMAIN pr : ~pr[p].published /\ pr[p].status # "error"}),
     publishing_completed |-> TRUE]

\* publish_content(cd, pl) is called; an empty list returns at once.
PublishBegin(cd, pl) ==
    /\ pub_idx = 0
    /\ pub_content' = cd
    /\ platforms' = pl
    /\ publish_results' = EmptyDict
    /\ IF pl = <<>>
       THEN /\ pub_ret' = PublishSummary(pl, EmptyDict)
            /\ pub_idx' = 0
       ELSE /\ pub_ret' = Unset
            /\ pub_idx' = 1
    /\ UNCHANGED <<coreVars, cregVars, hitlVars, monVars, overlapVars>>

\* One turn of the loop over platforms; after the last platform the call
\* returns its summary.
PublishStep ==
    /\ pub_idx > 0
    /\ LET p == platforms[pub_idx] IN
       \E r \in PlatformResults(pub_content, p) :
            LET pr == [k \in DOMAIN publish_results \cup {p} |->
                            IF k = p THEN r ELSE publish_results[k]]
            IN  /\ publish_results' = pr
                /\ IF pub_idx = Len(platforms)
                   THEN /\ pub_ret' = PublishSummary(platforms, pr)
                        /\ pub_idx' = 0
                   ELSE /\ pub_idx' = pub_idx + 1
                        /\ UNCHANGED pub_ret
    /\ UNCHANGED <<pub_content, platforms>>
    /\ UNCHANGED <<coreVars, cregVars, hitlVars, monVars, overlapVars>>

InitPublishing == InitRuntime

NextPublishing ==
    \/ \E cd \in PublishContents, pl \in PlatformLists : PublishBegin(cd, pl)
    \/ PublishStep

SpecPublishing == InitPublishing /\ [][NextPublishing]_vars

---------------------------------------------------------------------------
(* Overlapping process_task calls on one agent, from the dashboard *)

\* The agents the dashboard's requests are aimed at.
OverlapAgents == {"trend", "script"}

\* Tasks of the dashboard's manual trigger: one for each agent's handler and
\* one that neither agent handles.
OverlapTasks ==
    DirectTasks \cup {[task_id |-> "d3", task_type |-> "generate_content",
                       topic |-> "AI"]}

\* The process_task calls on agent w that still await their execute().
ExecutingOn(w) == {c \in CallSlots : inflight[c] # Unset /\ inflight[c].worker = w}

\* trigger_manual_task -> assign_task -> agent.process_task(t), up to the
\* await of execute(), while other calls on the agent may be in progress; an
\* unknown task type raises before anything is awaited.
OverlapBegin(c, w, t) ==
    /\ inflight[c] = Unset
    /\ AgentById(AgentIdOf(w)) = w
    /\ IF Get(t, "task_type", "unknown") \in HandlerSet(w)
       THEN /\ status' = [status EXCEPT ![w] = "working"]
            /\ inflight' = [inflight EXCEPT ![c] = [worker |-> w, task |-> t]]
            /\ UNCHANGED last_outcome
       ELSE \E o \in ExecuteOutcomes(w, t) :
            /\ status' = [status EXCEPT ![w] = StatusAfter(o)]
            /\ last_outcome' = [last_outcome EXCEPT ![w] = o]
            /\ UNCHANGED inflight
    /\ UNCHANGED <<regVars, runVars, directVars, compVars, orchVars>>
    /\ UNCHANGED <<cregVars, hitlVars, monVars, pubVars>>

\* The awaited execute() of the call in slot c returns or raises.
OverlapReturn(c) ==
    /\ inflight[c] # Unset
    /\ LET w == inflight[c].worker IN
       \E o \in ExecuteOutcomes(w, inflight[c].task) :
            /\ status' = [status EXCEPT ![w] = StatusAfter(o)]
            /\ last_outcome' = [last_outcome EXCEPT ![w] = o]
    /\ inflight' = [inflight EXCEPT ![c] = Unset]
    /\ UNCHANGED <<regVars, runVars, directVars, compVars, orchVars>>
    /\ UNCHANGED <<cregVars, hitlVars, monVars, pubVars>>

\* dashboard.control_agent on agent w, possibly while its calls run: the
\* status is overwritten, and no call's outcome is the latest event any more.
OverlapControl(w, action) ==
    /\ AgentById(AgentIdOf(w)) = w
    /\ status' = [status EXCEPT ![w] =
                    IF action = "pause" THEN "paused" ELSE "idle"]
    /\ last_outcome' = [last_outcome EXCEPT ![w] = Unset]
    /\ UNCHANGED inflight
    /\ UNCHANGED <<regVars, runVars, directVars, compVars, orchVars>>
    /\ UNCHANGED <<cregVars, hitlVars, monVars, pubVars>>

InitOverlap == InitRuntime

NextOverlap ==
    \/ \E c \in CallSlots, w \in OverlapAgents, t \in OverlapTasks :
            OverlapBegin(c, w, t)
    \/ \E c \in CallSlots : OverlapReturn(c)
    \/ \E w \in OverlapAgents, a \in {"start", "stop", "pause", "restart"} :
            OverlapControl(w, a)

SpecOverlap == InitOverlap /\ [][NextOverlap]_vars

---------------------------------------------------------------------------
(* ComponentRegistry: the component map, the type index, the health check *)

\* Bound on the register_component calls made in one behaviour.
MaxCompRegs == 3

ComponentIds == {"c1", "c2"}
ComponentTypeNames == {"ResearchComponent", "ContentComponent"}

\* A component object as BaseComponent.__init__ leaves it, of class `type`,
\* with the state it is in when the registry sees it: its status, and what
\* its _check_dependencies and _check_configuration hooks answer.
ComponentObject(id, type, st, dep, cfg) ==
    [id |-> id, type |-> type, status |-> st, dependency_check |-> dep,
     configuration_check |-> cfg, health |-> "unknown"]

\* Components handed to register_component where only the type index
\* matters: ready, with their dependencies and configuration in place.
PlainComponents ==
    {ComponentObject(id, type, "ready", TRUE, TRUE) :
        id \in ComponentIds, type \in ComponentTypeNames}

\* Components handed to register_component where health matters: of one
\* class, in any status a component can be left in, with a hook answering
\* False in some.
HealthComponents ==
    {ComponentObject(id, "ResearchComponent", st, ck[1], ck[2]) :
        id \in ComponentIds, st \in {"ready", "busy", "error", "shutdown"},
        ck \in {<<TRUE, TRUE>>, <<FALSE, TRUE>>, <<TRUE, FALSE>>}}

\* Position of the component registered under id, 0 if there is none.
ComponentIndex(comps, id) ==
    IF \E i \in 1..Len(comps) : comps[i].id = id
    THEN CHOOSE i \in 1..Len(comps) : comps[i].id = id
    ELSE 0

\* self.components[component.component_id] = component: a dict assignment
\* keeps the position of a key that is already present.
PutComponent(comps, c) ==
    IF ComponentIndex(comps, c.id) = 0
    THEN Append(comps, c)
    ELSE [comps EXCEPT ![ComponentIndex(comps, c.id)] = c]

\* list.remove(x): the list without its first x.
RemoveFirst(lst, x) ==
    IF ~InList(x, lst) THEN lst
    ELSE LET i == CHOOSE j \in 1..Len(lst) :
                    lst[j] = x /\ \A k \in 1..(j - 1) : lst[k] # x
         IN  SubSeq(lst, 1, i - 1) \o SubSeq(lst, i + 1, Len(lst))

\* ComponentRegistry.register_component
CRegister(c) ==
    /\ ncregs < MaxCompRegs
    /\ ncregs' = ncregs + 1
    /\ components' = PutComponent(components, c)
    /\ component_types' =
            [t \in DOMAIN component_types \cup {c.type} |->
                IF t = c.type
                THEN Append(Get(component_types, t, <<>>), c.id)
                ELSE component_types[t]]
    /\ overall_health' = "none"
    /\ UNCHANGED <<coreVars, hitlVars, monVars, pubVars, overlapVars>>

\* ComponentRegistry.unregister_component
CUnregister(id) ==
    /\ IF ComponentIndex(components, id) = 0
       THEN UNCHANGED <<components, component_types>>
       ELSE LET type == components[ComponentIndex(components, id)].type IN
            /\ component_types' =
                    IF type \in DOMAIN component_types
                    THEN [component_types EXCEPT
                            ![type] = RemoveFirst(component_types[type], id)]
                    ELSE component_types
            /\ components' = SelectSeq(components, LAMBDA c : c.id # id)
    /\ overall_health' = "none"
    /\ UNCHANGED ncregs
    /\ UNCHANGED <<coreVars, hitlVars, monVars, pubVars, overlapVars>>

\* ComponentRegistry.get_components_by_type: the components of the type's id
\* list, in the list's order, ids without a component skipped.
GetComponentsByType(type) ==
    LET ids == SelectSeq(Get(component_types, type, <<>>),
                         LAMBDA id : ComponentIndex(components, id) # 0)
    IN  [i \in 1..Len(ids) |-> components[ComponentIndex(components, ids[i])]]

\* BaseComponent.health_check: the health it assigns from its checks.
MutHealthIgnoresDependencies(st, dep, cfg) ==
    IF st \notin {"ready", "busy"} THEN "unhealthy"
    ELSE IF ~cfg THEN "degraded"
    ELSE "healthy"
BaseHealth(st, dep, cfg) ==
    IF st \notin {"ready", "busy"} THEN "unhealthy"
    ELSE IF ~dep THEN "degraded"
    ELSE IF ~cfg THEN "degraded"
    ELSE "healthy"

\* perform_health_check's loop over checked components from position i on,
\* with the overall health so far.
RECURSIVE FoldHealth(_, _, _)
FoldHealth(comps, i, overall) ==
    IF i > Len(comps) THEN overall
    ELSE FoldHealth(comps, i + 1,
            IF comps[i].health = "unhealthy" THEN "unhealthy"
            ELSE IF comps[i].health = "degraded" /\ overall = "healthy"
            THEN "degraded"
            ELSE overall)

\* ComponentRegistry.perform_health_check: every component's health_check
\* assigns its health, and the overall health is folded from the results.
CPerformHealthCheck ==
    /\ LET checked == [i \in 1..Len(components) |->
                        [components[i] EXCEPT
                            !.health = BaseHealth(components[i].status,
                                                  components[i].dependency_check,
                                                  components[i].configuration_check)]]
       IN  /\ components' = checked
           /\ overall_health' = FoldHealth(checked, 1, "healthy")
    /\ UNCHANGED <<component_types, ncregs>>
    /\ UNCHANGED <<coreVars, hitlVars, monVars, pubVars, overlapVars>>

InitComponents == InitRuntime

\* The registry given components of several classes.
NextTypeIndex ==
    \/ \E c \in PlainComponents : CRegister(c)
    \/ \E id \in ComponentIds : CUnregister(id)
    \/ CPerformHealthCheck

SpecTypeIndex == InitComponents /\ [][NextTypeIndex]_vars

\* The registry given components in every status.
NextHealth ==
    \/ \E c \in HealthComponents : CRegister(c)
    \/ \E id \in ComponentIds : CUnregister(id)
    \/ CPerformHealthCheck

SpecHealth == InitComponents /\ [][NextHealth]_vars

\* The task of the current or latest supervisor call has type tt.
TaskIs(tt) == Get(task, "task_type", "") = tt

\* A full pipeline run (coordinate_content_creation) has returned.
FullRunDone == pc = "done" /\ TaskIs("coordinate_content_creation")

\* Indices of the recorded process_task calls made in phase p.
CallsIn(p) == {i \in 1..Len(calls) : calls[i].phase = p}

\* The call with index i has returned a success envelope with approved = True.
Approved(i) ==
    /\ i <= Len(outs)
    /\ outs[i].kind = "return"
    /\ Get(outs[i].result, "approved", FALSE) = TRUE

\* C1: in a full pipeline run whose safety phase yields
\* content_passed_validation = false, distribution_results is exactly
\* {skipped: true, reason: "Failed safety validation"} and the distribution
\* phase dispatches to no worker (no process_task call carries the
\* distribution task).
C1_GatingSkipsDistribution ==
    (/\ TaskIs("coordinate_content_creation")
     /\ validation_results # Unset
     /\ ~Get(validation_results, "content_passed_validation", FALSE))
    => /\ CallsIn("distribution") = {}
       /\ distribution_results \in {Unset, SkipMarker}
       /\ pc = "done" =>
            /\ distribution_results =
                    [skipped |-> TRUE, reason |-> "Failed safety validation"]
            /\ ret.result.distribution_results = distribution_results

\* C1 witness: a full run ended with a failed validation by a dispatched
\* safety worker while a registered publisher waits in the distribution swarm.
C1_Witness ==
    /\ FullRunDone
    /\ CallsIn("safety") # {}
    /\ ~validation_results.content_passed_validation
    /\ InList(AgentIdOf("publisher"), swarms["distribution"])
    /\ InList("publisher", agents)

\* C2: if a run dispatches to the distribution swarm, then in that run at
\* least one safety worker processed the validation task and every safety
\* envelope carried result.approved = true.
C2_NeverUnvalidated ==
    CallsIn("distribution") # {}
    => /\ CallsIn("safety") # {}
       /\ \A i \in CallsIn("safety") : Approved(i)

\* C3: with an empty safety swarm a full pipeline run yields
\* validation_results = {error: "No safety agents available",
\* content_passed_validation: false} and distribution_results = the skip marker.
C3_EmptySafetySwarm ==
    (FullRunDone /\ swarms["safety"] = <<>>)
    => /\ validation_results = [error |-> "No safety agents available",
                                content_passed_validation |-> FALSE]
       /\ distribution_results =
                [skipped |-> TRUE, reason |-> "Failed safety validation"]
       /\ ret.result.validation_results = validation_results
       /\ ret.result.distribution_results = distribution_results

\* C3 witness: such a run with the three other swarms populated and registered.
C3_Witness ==
    /\ FullRunDone
    /\ swarms["safety"] = <<>>
    /\ CallsIn("research") # {}
    /\ CallsIn("content") # {}
    /\ InList(AgentIdOf("publisher"), swarms["distribution"])
    /\ InList("publisher", agents)

\* C4: for a populated safety swarm content_passed_validation is true iff
\* every dispatched safety worker returned a success envelope with
\* approved = true (AND semantics; an approved = false or an error envelope
\* makes it false).
C4_AndSemantics ==
    (validation_results # Unset /\ swarms["safety"] # <<>>)
    => /\ "content_passed_validation" \in DOMAIN validation_results
       /\ validation_results.content_passed_validation
            <=> \A i \in CallsIn("safety") : Approved(i)

\* C4 witness: two safety workers answered, one approving, one not.
C4_Witness ==
    /\ validation_results # Unset
    /\ \E i, j \in CallsIn("safety") :
            /\ Approved(i)
            /\ j <= Len(outs) /\ outs[j].kind = "return"
            /\ Get(outs[j].result, "approved", TRUE) = FALSE
    /\ ~validation_results.content_passed_validation

\* The value the entry point holds for phase p.
ResultOf(p) ==
    CASE p = "research"     -> research_results
      [] p = "content"      -> content_results
      [] p = "safety"       -> validation_results
      [] p = "distribution" -> distribution_results

\* The message of a phase's empty-swarm marker.
NoAgentsMessage(p) ==
    CASE p = "research"     -> "No research agents available"
      [] p = "content"      -> "No content agents available"
      [] p = "safety"       -> "No safety agents available"
      [] p = "distribution" -> "No distribution agents available"

\* Phase p of the finished full run ran against its swarm: the distribution
\* phase does so only when the safety verdict let it in.
RanAgainstSwarm(p) ==
    p = "distribution" => Get(validation_results, "content_passed_validation", FALSE)

\* C5: every phase run against an empty swarm returns the error marker
\* "No <phase> agents available" and dispatches nothing, and the full
\* pipeline call returns a success envelope with workflow_completed = true,
\* whichever swarms are empty.
C5_EmptySwarmSoftFailure ==
    FullRunDone
    => /\ \A p \in SwarmNames :
            (swarms[p] = <<>> /\ RanAgainstSwarm(p))
            => /\ Get(ResultOf(p), "error", "") = NoAgentsMessage(p)
               /\ CallsIn(p) = {}
       /\ ret.status = "success"
       /\ ret.result.workflow_completed = TRUE

\* C5 witness: a full run in which the distribution phase was let in and found
\* its swarm empty, as did the research phase.
C5_Witness ==
    /\ FullRunDone
    /\ swarms["distribution"] = <<>>
    /\ swarms["research"] = <<>>
    /\ validation_results.content_passed_validation
    /\ CallsIn("safety") # {}

\* C6 as claimed: with an empty research swarm the run does not advance, so
\* no worker receives a call of the content, safety or distribution phase.
C6_NoAdvanceAfterEmptyResearch ==
    (TaskIs("coordinate_content_creation") /\ swarms["research"] = <<>>)
    => calls = <<>>

\* C6 as amended: with an empty research swarm the research phase returns
\* {error: "No research agents available"} without dispatching to any worker,
\* and the run goes on to the later phases with that marker as their input.
C6_EmptyResearchMarker ==
    (/\ TaskIs("coordinate_content_creation") \/ TaskIs("analyze_trends")
     /\ swarms["research"] = <<>>
     /\ pc # "idle")
    => /\ CallsIn("research") = {}
       /\ research_results \in {Unset, [error |-> "No research agents available"]}
       /\ pc = "done" => research_results # Unset
       /\ FullRunDone => content_results # Unset /\ validation_results # Unset
       /\ \A i \in CallsIn("content") :
            calls[i].task_type = "generate_content"

\* C6 witness: a full run with an empty research swarm in which a content
\* worker was dispatched to.
C6_Witness ==
    /\ FullRunDone
    /\ swarms["research"] = <<>>
    /\ research_results = [error |-> "No research agents available"]
    /\ CallsIn("content") # {}

---------------------------------------------------------------------------
(* Properties of BaseAgent.process_task inside the pipeline *)

\* The step starts a process_task call on a worker.
CallStarts == Len(calls') = Len(calls) + 1

\* The worker of the latest call after the step.
CalledWorker == calls'[Len(calls')].worker

\* The step hands a worker's envelope to the broadcast loop.
EnvelopeArrives == Len(bresults') = Len(bresults) + 1

\* The step makes the supervisor's own process_task call return.
SupervisorReturns == ret' # ret /\ ret' # Unset

\* An envelope with exactly one of result / error, matching its status.
ExactlyOne(e) ==
    \/ e.status = "success" /\ "result" \in DOMAIN e /\ "error" \notin DOMAIN e
    \/ /\ e.status = "error" /\ "error" \in DOMAIN e /\ e.error # ""
       /\ "result" \notin DOMAIN e

\* What C8 asks of one step.
C8_Step ==
    /\ (CallStarts /\ calls'[Len(calls')].task_type \notin HandlerSet(CalledWorker))
       => /\ EnvelopeArrives
          /\ bresults'[Len(bresults')].status = "error"
          /\ Get(bresults'[Len(bresults')], "error", "") # ""
          /\ bresults'[Len(bresults')].agent_id = AgentIdOf(CalledWorker)
          /\ status'[CalledWorker] = "error"
          /\ exc' = ""
          /\ pc' = "broadcast"
    /\ (Quiescent /\ task' # task /\ task' # Unset
            /\ Get(task', "task_type", "unknown") \notin HandlerSet(Supervisor))
       => /\ ret'.status = "error"
          /\ Get(ret', "error", "") # ""
          /\ status'[Supervisor] = "error"
          /\ exc' = ""
          /\ pc' = "done"

\* C8: a task whose task_type the worker's handler set does not recognise
\* makes process_task return an envelope with status "error" and a non-empty
\* error message, puts the worker in state Error, and raises nothing: the
\* broadcast loop of the registry and the supervisor go on.
C8_UnknownTypeIsErrorEnvelope == [][C8_Step]_vars

\* C8 witness: a supervisor task has returned a success envelope although one
\* of the workers it dispatched to did not recognise the task type and is
\* left in state Error.
C8_Witness ==
    /\ pc = "done"
    /\ Get(ret, "status", "") = "success"
    /\ \E i \in 1..Len(calls) :
            /\ calls[i].task_type \notin HandlerSet(calls[i].worker)
            /\ outs[i].kind = "raise"
            /\ bresults # <<>>
            /\ status[calls[i].worker] = "error"

\* What C10 asks of one step.
C10_Step ==
    /\ EnvelopeArrives
       => LET e == bresults'[Len(bresults')]
              w == CalledWorker
          IN  /\ ExactlyOne(e)
              /\ e.agent_id = AgentIdOf(w)
              /\ status'[w] = "completed" <=> e.status = "success"
              /\ status'[w] = "error" <=> e.status = "error"
    /\ SupervisorReturns
       => /\ ExactlyOne(ret')
          /\ status'[Supervisor] = "completed" <=> ret'.status = "success"
          /\ status'[Supervisor] = "error" <=> ret'.status = "error"

\* C10: every envelope BaseAgent.process_task returns has exactly one of
\* result / error (status "success" with result and no error, or status
\* "error" with error and no result), and right after the call the worker is
\* Completed iff the status is success and Error iff it is error (calls on
\* one worker do not overlap in the pipeline).
C10_EnvelopeExactlyOne == [][C10_Step]_vars

\* C10 witness: one broadcast collected a success envelope and an error
\* envelope.
C10_Witness ==
    \E i, j \in 1..Len(bresults) :
        /\ bresults[i].status = "success" /\ "result" \in DOMAIN bresults[i]
        /\ bresults[j].status = "error" /\ "error" \in DOMAIN bresults[j]

---------------------------------------------------------------------------
(* Properties of the two runtimes' process_task outside the pipeline *)

\* C7: no process_task call raises to its caller: on either runtime, in every
\* state of the worker (also after a failed task and after stop), the call
\* returns an envelope.
C7_ProcessTaskNeverRaises ==
    /\ cexc = ""
    /\ aret # Unset => aret.status \in {"success", "error"}
    /\ cret # Unset => cret.status \in {"success", "error"}

\* The step is a process_task call on the component.
ComponentCalled == \E t \in ComponentTasks : ComponentProcessBegin(t)

\* The step is a direct process_task call on an agent.
AgentCalled == \E w \in DirectAgents, t \in DirectTasks : AgentProcessBegin(w, t)

\* C9: a worker whose previous process_task call has ended, in Completed or
\* in Error, accepts the next call: the worker goes to Working (BUSY for a
\* component) or, when the handler fails at once, to Error; this holds for
\* any number of calls on BaseAgent and on BaseComponent.
C9_ReentrantLifecycle ==
    [][/\ (ComponentCalled /\ ~cbusy /\ ncalls > 0 /\ ncalls < MaxCompCalls)
          => /\ cexc' = ""
             /\ ncalls' = ncalls + 1
             /\ cstatus' \in {"busy", "error"}
       /\ (AgentCalled /\ status["trend"] \in {"completed", "error"})
          => status'["trend"] \in {"working", "error"}]_vars

---------------------------------------------------------------------------
(* Properties of the orchestrator used directly *)

\* A broadcast_task call made on the orchestrator has returned.
BroadcastDone == pc = "done" /\ btask # Unset /\ task = Unset

\* The broadcast's predicate holds of agent object w.
Accepted(w) == filter_func = NoFilter \/ w \in filter_func.accepts

\* The registered agents the predicate holds of, in the registry's order.
AcceptedAgents == SelectSeq(agents, Accepted)

\* Some agent is registered under id.
Registered(id) == \E i \in 1..Len(agents) : AgentIdOf(agents[i]) = id

\* C11: broadcast_task returns one envelope per registered worker satisfying
\* the predicate, in the registry's registration order (an id keeps the place
\* of its first registration when it is re-registered), each worker called
\* once; when none match the result is the empty list and nothing is raised.
C11_BroadcastInRegistrationOrder ==
    BroadcastDone
    => /\ Len(ret) = Len(AcceptedAgents)
       /\ Len(calls) = Len(AcceptedAgents)
       /\ \A k \in 1..Len(ret) :
            /\ ret[k].agent_id = AgentIdOf(AcceptedAgents[k])
            /\ calls[k].worker = AcceptedAgents[k]
       /\ AcceptedAgents = <<>> => ret = <<>>

\* C11 witness: a broadcast with a predicate over a registry of two workers
\* returned two envelopes, the second TrendFetcherAgent object being one of
\* the workers.
C11_Witness ==
    /\ BroadcastDone
    /\ filter_func # NoFilter
    /\ Len(agents) = 2
    /\ Len(ret) = 2
    /\ agents[2] = SecondTrend

\* C11 witness for the empty case: workers are registered and none matches.
C11_WitnessEmpty ==
    /\ BroadcastDone
    /\ Len(agents) = 2
    /\ ret = <<>>

\* The step registers object w with the orchestrator.
Registers(w) == OrchRegister(w)

\* The step is an assign_task call for id.
Assigns(id) == \E t \in DirectTasks : AssignTask(id, t)

\* What C16 asks of one step.
C16_Step ==
    /\ \A w \in RegistryObjects :
        (Registers(w) /\ Registered(AgentIdOf(w)))
        => /\ Len(agents') = Len(agents)
           /\ \A i \in 1..Len(agents) :
                agents'[i] = IF AgentIdOf(agents[i]) = AgentIdOf(w)
                             THEN w ELSE agents[i]
           /\ Cardinality({i \in 1..Len(agents') :
                                AgentIdOf(agents'[i]) = AgentIdOf(w)}) = 1
    /\ \A id \in OrchIds :
        Assigns(id)
        => \A w \in RegistryObjects :
                (\A i \in 1..Len(agents) : agents[i] # w)
                => status'[w] = status[w]

\* C16: registering a worker under an id that is already registered replaces
\* the entry: the registry then holds only the second object for that id,
\* its length is unchanged, the other entries are untouched, and a later
\* assign_task to that id leaves the replaced object alone.
C16_ReRegisterReplaces == [][C16_Step]_vars

\* C16 witness: both TrendFetcherAgent objects have completed a task, so each
\* was registered under the shared id in turn, and the registry holds the
\* second one next to another worker.
C16_Witness ==
    /\ Len(agents) = 2
    /\ \E i \in 1..2 : agents[i] = SecondTrend
    /\ status["trend"] = "completed"
    /\ status[SecondTrend] = "completed"

\* What C17 asks of one step.
C17_Step ==
    /\ \A id \in OrchIds :
        Assigns(id)
        => IF ~Registered(id)
           THEN /\ exc' = "ValueError: Agent not found in orchestrator"
                /\ status' = status
                /\ agents' = agents
                /\ acur' = "none" /\ aret' = Unset
           ELSE /\ exc' = ""
                /\ \/ acur' # "none" /\ AgentIdOf(acur') = id /\ aret' = Unset
                   \/ acur' = "none" /\ aret'.agent_id = id
                /\ \A w \in RegistryObjects :
                        (AgentIdOf(w) # id \/ \A i \in 1..Len(agents) : agents[i] # w)
                        => status'[w] = status[w]
    /\ (acur # "none" /\ acur' = "none")
        => /\ aret'.agent_id = AgentIdOf(acur)
           /\ aret'.task_id = atask.task_id
           /\ \A w \in RegistryObjects \ {acur} : status'[w] = status[w]

\* C17: assign_task on an id that is not registered raises the not-found
\* ValueError and changes no worker's state; on a registered id it calls
\* process_task of the worker registered under that id, once, returns that
\* worker's envelope and touches no other worker.
C17_AssignTask == [][C17_Step]_vars

\* C17 witness: an assign_task to an unknown id has raised while a worker is
\* registered and another assign_task had completed on it before.
C17_Witness ==
    /\ exc = "ValueError: Agent not found in orchestrator"
    /\ agents # <<>>
    /\ \E w \in RegistryObjects : status[w] = "completed"

\* C17 witness for the registered case: the call has returned the envelope of
\* the worker registered under the id.
C17_WitnessRegistered ==
    /\ exc = ""
    /\ aret # Unset
    /\ aret.status = "success"
    /\ Len(agents) = 2

\* C19: while a worker is Paused, assign_task and broadcast_task do not invoke
\* its handler, and it stays Paused until a control action changes its state.
C19_PausedSuspendsDispatch ==
    [][\A w \in RegistryObjects :
        status[w] = "paused"
        => \/ status'[w] = "paused"
           \/ \E id \in OrchIds, a \in OrchControlActions : ControlAgent(id, a)]_vars

---------------------------------------------------------------------------
(* Further properties of the supervisor's pipeline *)

\* Place of a phase in the pipeline.
PhaseRank(p) ==
    CASE p = "research" -> 1 [] p = "content" -> 2 [] p = "safety" -> 3
      [] p = "distribution" -> 4 [] OTHER -> 0

\* Workers whose process_task, called by the supervisor, is executing.
Executing == {w \in Workers : status[w] = "working"}

\* C12: dispatch within a run is strictly sequential: at most one dispatched
\* worker executes its handler at any moment, a call starts only when every
\* earlier call has returned its envelope, and the calls follow the order
\* research, content, safety, distribution.
C12_StrictlySequential ==
    /\ Len(calls) - Len(outs) = IF pc = "handler" THEN 1 ELSE 0
    /\ Executing = IF pc = "handler" THEN {agents[bidx]} ELSE {}
    /\ \A i, j \in 1..Len(calls) :
            i < j => PhaseRank(calls[i].phase) <= PhaseRank(calls[j].phase)
    /\ \A i \in 1..Len(calls) : PhaseRank(calls[i].phase) <= PhaseRank(phase)
                                    \/ pc = "done"

\* C12 witness: the second safety worker executes its handler after a
\* research worker and the first safety worker have returned.
C12_Witness ==
    /\ pc = "handler"
    /\ phase = "safety"
    /\ Cardinality(CallsIn("safety")) = 2
    /\ CallsIn("research") # {}
    /\ Len(outs) = Len(calls) - 1

\* C13: publish_content dispatches to the distribution swarm exactly when the
\* safety verdict passes and the swarm is populated, as the full pipeline
\* does, and returns what the full pipeline records as distribution_results:
\* the skip marker when validation fails.
C13_PublishReusesTail ==
    (TaskIs("publish_content") /\ pc = "done")
    => /\ CallsIn("distribution") # {}
            => Get(validation_results, "content_passed_validation", FALSE)
       /\ ret.status = "success"
       /\ ret.result =
            IF Get(validation_results, "content_passed_validation", FALSE)
            THEN distribution_results
            ELSE [skipped |-> TRUE, reason |-> "Failed safety validation"]

\* The registered agents that are members of the research swarm, in the
\* registry's order.
ResearchMembers ==
    SelectSeq(agents, LAMBDA w : InList(AgentIdOf(w), swarms["research"]))

\* C14: the research phase's value is the same function of the registry and
\* the input under analyze_trends and under the full pipeline: the marker
\* for an empty swarm, else one envelope per registered research-swarm
\* worker in registration order, a success envelope carrying the handler's
\* payload unchanged; analyze_trends returns exactly that value.
C14_AnalyzeTrendsIsResearchPhase ==
    ((TaskIs("analyze_trends") \/ TaskIs("coordinate_content_creation"))
        /\ research_results # Unset)
    => /\ IF swarms["research"] = <<>>
          THEN research_results = [error |-> "No research agents available"]
          ELSE /\ DOMAIN research_results = {"results", "phase"}
               /\ research_results.phase = "research"
               /\ Len(research_results.results) = Len(ResearchMembers)
               /\ \A k \in 1..Len(research_results.results) :
                    LET e == research_results.results[k] IN
                    /\ e.agent_id = AgentIdOf(ResearchMembers[k])
                    /\ calls[k].task_type = "analyze_trends"
                    /\ e.status = "success" => e.result = outs[k].result
                    /\ e.status = "success" <=> outs[k].kind = "return"
       /\ (TaskIs("analyze_trends") /\ pc = "done")
            => /\ ret.status = "success"
               /\ ret.result = research_results
               /\ CallsIn("content") \cup CallsIn("safety")
                    \cup CallsIn("distribution") = {}

\* C14 witness: analyze_trends has returned the envelope of the one research
\* worker while a worker of another swarm is registered too.
C14_Witness ==
    /\ TaskIs("analyze_trends")
    /\ pc = "done"
    /\ Len(agents) >= 2
    /\ "results" \in DOMAIN ret.result
    /\ Len(ret.result.results) = 1
    /\ ret.result.results[1].result.analysis_completed

\* A supervisor call is between its start and its return.
RunInProgress == pc \in {"phase", "broadcast", "handler"}

\* C15: the full pipeline call returns a success envelope whose result holds
\* the four phase results and workflow_completed = true, and leaves the
\* supervisor Completed, whatever the swarms hold and whatever the workers
\* answer; a call in progress can always take its next step.
C15_PipelineAlwaysSucceeds ==
    /\ FullRunDone
        => /\ ret.status = "success"
           /\ DOMAIN ret = {"agent_id", "task_id", "result", "status", "timestamp"}
           /\ DOMAIN ret.result =
                {"research_results", "content_results", "validation_results",
                 "distribution_results", "workflow_completed"}
           /\ ret.result.workflow_completed = TRUE
           /\ ret.result.research_results = research_results
           /\ ret.result.content_results = content_results
           /\ ret.result.validation_results = validation_results
           /\ ret.result.distribution_results = distribution_results
           /\ \A p \in SwarmNames : ResultOf(p) # Unset
           /\ status[Supervisor] = "completed"
    /\ RunInProgress => ENABLED (EnterPhase \/ BroadcastNext \/ HandlerReturn)

\* C15 witness: a full run has returned although a worker answered with an
\* error envelope and another swarm was empty.
C15_Witness ==
    /\ FullRunDone
    /\ \E i \in 1..Len(outs) : outs[i].kind = "raise"
    /\ \E p \in SwarmNames : swarms[p] = <<>>
    /\ ret.status = "success"

\* What C18 asks of one step.
C18_Step ==
    \A r \in RegInputs :
        RegisterSubagent(r[1], r[2])
        => IF r[1] \notin Workers \/ r[2] \notin SwarmNames
           THEN /\ exc' = "ValueError: Invalid agent registration request"
                /\ agents' = agents
                /\ swarms' = swarms
           ELSE /\ exc' = ""
                /\ Cardinality({i \in 1..Len(agents') : agents'[i] = r[1]}) = 1
                /\ Cardinality({i \in 1..Len(agents') :
                                    AgentIdOf(agents'[i]) = AgentIdOf(r[1])}) = 1
                /\ InList(AgentIdOf(r[1]), swarms'[r[2]])
                /\ swarms'[r[2]] = Append(swarms[r[2]], AgentIdOf(r[1]))
                /\ \A s \in SwarmNames \ {r[2]} : swarms'[s] = swarms[s]

\* C18: register_subagent raises the invalid-registration ValueError when the
\* swarm name is not one of the four or the worker is missing, and changes
\* neither the registry nor any swarm; on success the worker is in the
\* registry, its id is appended to the named swarm, and no other swarm
\* changes.
C18_RegisterSubagent == [][C18_Step]_vars

\* C18 witness: a registration has been refused after another had succeeded.
C18_Witness ==
    /\ exc = "ValueError: Invalid agent registration request"
    /\ agents # <<>>
    /\ \E s \in SwarmNames : swarms[s] # <<>>

---------------------------------------------------------------------------
(* Properties of the component registry's queries *)

\* What a status snapshot shows of the component.
ComponentState == <<cstatus, health, cqueue, metrics, is_running>>

\* C20: get_all_statuses() and perform_health_check() change no component
\* state, and a get_all_statuses() that follows another one with nothing but
\* health checks in between returns the same snapshot.
C20_SnapshotsReadOnly ==
    [][/\ ComponentHealthCheck => ComponentState' = ComponentState
       /\ ComponentGetAllStatuses
            => /\ ComponentState' = ComponentState
               /\ snapshot # Unset => snapshot' = snapshot]_vars

\* The broadcast of phase p is under way: its task is built and is being
\* handed to the swarm's workers.
Dispatching(p) == phase = p /\ pc \in {"broadcast", "handler"}

\* C22: in a full pipeline run the content task's research_data is the value
\* recorded as research_results and the safety task's content_data is the
\* value recorded as content_results, whole, also when the earlier phase
\* returned an error marker.
C22_TaskEmbedsPreviousResult ==
    TaskIs("coordinate_content_creation")
    => /\ Dispatching("content")
            => /\ research_results # Unset
               /\ btask.research_data = research_results
       /\ Dispatching("safety")
            => /\ content_results # Unset
               /\ btask.content_data = content_results

\* C22 witness: the safety task of a full run is with a worker while the
\* content phase before it had returned its error marker.
C22_Witness ==
    /\ TaskIs("coordinate_content_creation")
    /\ Dispatching("safety") /\ pc = "handler"
    /\ "error" \in DOMAIN content_results
    /\ btask.content_data = content_results

\* C22 witness: the content task of a full run is with a worker and carries
\* the research phase's envelopes.
C22_WitnessContent ==
    /\ TaskIs("coordinate_content_creation")
    /\ Dispatching("content") /\ pc = "handler"
    /\ "results" \in DOMAIN research_results
    /\ Len(research_results.results) > 0
    /\ btask.research_data = research_results

\* C23: whenever the distribution swarm is dispatched to, the distribution
\* task's content_data carries the content the content phase produced and the
\* safety phase approved: it is not empty when the content phase produced
\* results.
C23_DistributionCarriesContent ==
    (/\ TaskIs("coordinate_content_creation")
     /\ Dispatching("distribution")
     /\ "results" \in DOMAIN content_results
     /\ Len(content_results.results) > 0)
    => btask.content_data # EmptyDict

\* Indices of the recorded process_task calls made on worker w.
CallsOn(w) == {i \in 1..Len(calls) : calls[i].worker = w}

\* C27: with the agents initialize_agents registers, no full pipeline run and
\* no publish_content call dispatches to the distribution swarm: every
\* envelope of the moderation worker carries approved = false and
\* content_passed_validation is false in every run.
C27_DefaultSetNeverPublishes ==
    /\ CallsIn("distribution") = {}
    /\ \A i \in CallsOn("moderation") :
            i <= Len(outs) => /\ outs[i].kind = "return"
                              /\ outs[i].result.approved = FALSE
    /\ validation_results # Unset
            => validation_results.content_passed_validation = FALSE
    /\ distribution_results # Unset => distribution_results = SkipMarker

\* C27 witness: a publish_content call whose task wraps content that passes
\* every moderation check has returned, after the moderation worker and the
\* human-in-the-loop worker both processed its validation task.
C27_Witness ==
    /\ pc = "done"
    /\ TaskIs("publish_content")
    /\ Get(task, "content_data", EmptyDict) = GoodContent
    /\ ModerationApproved(task.content_data)
    /\ CallsOn("moderation") # {} /\ CallsOn("hitl") # {}
    /\ \E i \in CallsOn("hitl") : Approved(i)
    /\ validation_results.content_passed_validation = FALSE

\* C27 witness: a full pipeline run has returned with a script from the
\* content swarm, and its distribution phase was skipped.
C27_WitnessFullRun ==
    /\ FullRunDone
    /\ Len(content_results.results) > 0
    /\ CallsOn("moderation") # {}
    /\ distribution_results = SkipMarker

\* A validate_content call is made on content that needs review.
ValidatesForReview == \E cd \in HitlContents : HitlNeedsApproval(cd) /\ HitlValidate(cd)

\* An approve_content call is made on approval id `id`.
Approves(id) == \E a \in BOOLEAN : HitlApprove(id, a)

C25_Step ==
    /\ ValidatesForReview
            => /\ hitl_ret'.approval_id \notin DOMAIN pending_approvals
               /\ DOMAIN pending_approvals' =
                        DOMAIN pending_approvals \cup {hitl_ret'.approval_id}
    /\ \A id \in DOMAIN pending_approvals :
            \/ /\ id \in DOMAIN pending_approvals'
               /\ pending_approvals'[id] = pending_approvals[id]
            \/ Approves(id)
    /\ \A id \in ApprovalIds \ DOMAIN pending_approvals :
            Approves(id) => /\ "error" \in DOMAIN hitl_ret'
                            /\ pending_approvals' = pending_approvals

\* C25: pending approvals are never lost or overwritten: a validate_content
\* call that needs review adds one entry under an approval id that is not
\* pending at that moment, an entry leaves pending_approvals (or changes)
\* only through approve_content on its own id, and approve_content on an
\* unknown id returns an error and changes nothing.
C25_PendingNeverOverwritten == [][C25_Step]_vars

\* C28: after any sequence of start_monitoring and stop_monitoring calls,
\* is_monitoring is true iff monitoring_tasks is non-empty, at most one
\* monitoring task exists, and start_monitoring answers already_monitoring
\* only while a monitoring task exists (after the only active task was
\* stopped, the next start_monitoring starts a new one).
C28_FlagMatchesTasks ==
    /\ is_monitoring <=> monitoring_tasks # {}
    /\ Cardinality(monitoring_tasks) <= 1
    /\ Get(mon_ret, "status", "") = "already_monitoring" => monitoring_tasks # {}

\* No step of the component takes an item from its task queue: a stop() that
\* waits for the queue to drain waits for good, whatever the bounds on calls.
QueueNeverDrains == [][cqueue' >= cqueue]_vars

\* C29: a stop() call on a running component eventually completes, leaving
\* is_running false and the status Shutdown, whatever add_task and
\* process_task calls came before.
C29_StopCompletes ==
    (is_running /\ stopping) ~> (~is_running /\ cstatus = "shutdown")

\* C24: every publish_content result accounts for each attempted platform
\* exactly once: successful_publishes + failed_publishes equals
\* total_platforms_attempted, for supported, unsupported and repeated
\* platforms and every per-platform outcome.
C24_EveryPlatformAccounted ==
    pub_ret # Unset
    => pub_ret.successful_publishes + pub_ret.failed_publishes
            = pub_ret.total_platforms_attempted

ReportedHealths == {components[i].health : i \in 1..Len(components)}

\* The worst of a set of healths.
Worst(hs) ==
    IF "unhealthy" \in hs THEN "unhealthy"
    ELSE IF "degraded" \in hs THEN "degraded"
    ELSE "healthy"

C21_WitnessUnhealthy ==
    /\ overall_health = "unhealthy"
    /\ Len(components) = 2
    /\ components[1].health = "degraded"
    /\ components[2].status = "shutdown" /\ components[2].health = "unhealthy"

\* The registered components whose class is `type`.
RegisteredOfType(type) ==
    {components[i] : i \in {j \in 1..Len(components) : components[j].type = type}}

\* C30: get_components_by_type(T) returns exactly the currently registered
\* components whose type is T, each exactly once, after any sequence of
\* register_component and unregister_component calls.
C30_TypeIndexConsistent ==
    \A type \in ComponentTypeNames :
        LET got == GetComponentsByType(type) IN
        /\ {got[i] : i \in 1..Len(got)} = RegisteredOfType(type)
        /\ \A i, j \in 1..Len(got) : i # j => got[i] # got[j]

====
